---- MODULE Spec2Model ----
(***************************************************************************)
(* Model of the student knowledge-graph server (src/index.ts): the graph   *)
(* store kept in the memory document, the read-only query layer and the    *)
(* session workflow kept in the sessions document.                         *)
(*                                                                         *)
(* Strings are modelled as sequences of one-character strings, so that     *)
(* toLowerCase, split, includes and startsWith are computed as the code    *)
(* computes them.                                                          *)
(***************************************************************************)
EXTENDS Integers, Sequences, FiniteSets, TLC

VARIABLES entities, relations, sessions, ret, bfs, inflight

vars == <<entities, relations, sessions, ret, bfs, inflight>>

----------------------------------------------------------------------------
(* Strings                                                                 *)

T_course == <<"c","o","u","r","s","e">>
T_assignment == <<"a","s","s","i","g","n","m","e","n","t">>
T_exam == <<"e","x","a","m">>
T_concept == <<"c","o","n","c","e","p","t">>
T_resource == <<"r","e","s","o","u","r","c","e">>
T_note == <<"n","o","t","e">>
T_lecture == <<"l","e","c","t","u","r","e">>
T_project == <<"p","r","o","j","e","c","t">>
T_question == <<"q","u","e","s","t","i","o","n">>
T_term == <<"t","e","r","m">>
T_goal == <<"g","o","a","l">>
T_professor == <<"p","r","o","f","e","s","s","o","r">>

validEntityTypes ==
    {T_course,
     T_assignment,
     T_exam,
     T_concept,
     T_resource,
     T_note,
     T_lecture,
     T_project,
     T_question,
     T_term,
     T_goal,
     T_professor}

T_enrolled_in == <<"e","n","r","o","l","l","e","d","_","i","n">>
T_assigned_in == <<"a","s","s","i","g","n","e","d","_","i","n">>
T_due_on == <<"d","u","e","_","o","n">>
T_covers == <<"c","o","v","e","r","s">>
T_references == <<"r","e","f","e","r","e","n","c","e","s">>
T_prerequisite_for == <<"p","r","e","r","e","q","u","i","s","i","t","e","_","f","o","r">>
T_taught_by == <<"t","a","u","g","h","t","_","b","y">>
T_scheduled_for == <<"s","c","h","e","d","u","l","e","d","_","f","o","r">>
T_contains == <<"c","o","n","t","a","i","n","s">>
T_requires == <<"r","e","q","u","i","r","e","s">>
T_related_to == <<"r","e","l","a","t","e","d","_","t","o">>
T_created_for == <<"c","r","e","a","t","e","d","_","f","o","r">>
T_studies == <<"s","t","u","d","i","e","s">>
T_helps_with == <<"h","e","l","p","s","_","w","i","t","h">>
T_submitted == <<"s","u","b","m","i","t","t","e","d">>
T_part_of == <<"p","a","r","t","_","o","f">>
T_included_in == <<"i","n","c","l","u","d","e","d","_","i","n">>
T_follows == <<"f","o","l","l","o","w","s">>
T_attends == <<"a","t","t","e","n","d","s">>
T_graded_with == <<"g","r","a","d","e","d","_","w","i","t","h">>

VALID_RELATION_TYPES ==
    {T_enrolled_in,
     T_assigned_in,
     T_due_on,
     T_covers,
     T_references,
     T_prerequisite_for,
     T_taught_by,
     T_scheduled_for,
     T_contains,
     T_requires,
     T_related_to,
     T_created_for,
     T_studies,
     T_helps_with,
     T_submitted,
     T_part_of,
     T_included_in,
     T_follows,
     T_attends,
     T_graded_with}

\* String.prototype.toLowerCase, one character
Lower(c) ==
    CASE c = "A" -> "a"
      [] c = "B" -> "b"
      [] c = "C" -> "c"
      [] c = "D" -> "d"
      [] c = "E" -> "e"
      [] c = "F" -> "f"
      [] c = "G" -> "g"
      [] c = "H" -> "h"
      [] c = "I" -> "i"
      [] c = "J" -> "j"
      [] c = "K" -> "k"
      [] c = "L" -> "l"
      [] c = "M" -> "m"
      [] c = "N" -> "n"
      [] c = "O" -> "o"
      [] c = "P" -> "p"
      [] c = "Q" -> "q"
      [] c = "R" -> "r"
      [] c = "S" -> "s"
      [] c = "T" -> "t"
      [] c = "U" -> "u"
      [] c = "V" -> "v"
      [] c = "W" -> "w"
      [] c = "X" -> "x"
      [] c = "Y" -> "y"
      [] c = "Z" -> "z"
      [] OTHER -> c

\* String.prototype.toLowerCase
toLowerCase(s) == [i \in 1..Len(s) |-> Lower(s[i])]

\* the characters the regular expression \s matches
Whitespace == {" ", "\t", "\n"}

\* String.prototype.startsWith
startsWith(s, p) ==
    /\ Len(p) <= Len(s)
    /\ \A i \in 1..Len(p) : s[i] = p[i]

\* String.prototype.includes
includes(s, t) ==
    \E k \in 0..(Len(s) - Len(t)) : \A i \in 1..Len(t) : s[k + i] = t[i]

\* SelectSeq with the test given as a set of kept indices
RECURSIVE FilterIdx(_, _, _)
FilterIdx(s, keep, i) ==
    IF i > Len(s) THEN <<>>
    ELSE IF i \in keep THEN <<s[i]>> \o FilterIdx(s, keep, i + 1)
    ELSE FilterIdx(s, keep, i + 1)

\* Array.prototype.filter
filter(s, Test(_)) == FilterIdx(s, {i \in 1..Len(s) : Test(s[i])}, 1)

\* Array.prototype.some
some(s, Test(_)) == \E i \in 1..Len(s) : Test(s[i])

\* Array.prototype.includes
arrayIncludes(s, x) == \E i \in 1..Len(s) : s[i] = x

\* Array.prototype.findIndex, 0 when nothing is found
findIndex(s, Test(_)) ==
    IF \E i \in 1..Len(s) : Test(s[i])
    THEN CHOOSE i \in 1..Len(s) : Test(s[i]) /\ \A j \in 1..(i - 1) : ~Test(s[j])
    ELSE 0

----------------------------------------------------------------------------
(* Graph store: KnowledgeGraphManager                                      *)

isValidEntityType(type) == type \in validEntityTypes

\* the graph document as loadGraph returns it
loadGraph == [entities |-> entities, relations |-> relations]

EmptyGraph == [entities |-> <<>>, relations |-> <<>>]

\* a call that threw: nothing was saved
Threw(g, msg) == [ok |-> FALSE, error |-> msg, graph |-> g]

\* a call that returned after saveGraph(graph)
Saved(g) == [ok |-> TRUE, error |-> "", graph |-> g]

\* the writing that keeps what another call has stored since the graph was read
saveGraph_merging(stored, graph) ==
    [entities |-> stored.entities \o
                  FilterIdx(graph.entities,
                            {k \in 1..Len(graph.entities) :
                                \A m \in 1..Len(stored.entities) :
                                    stored.entities[m] # graph.entities[k]}, 1),
     relations |-> graph.relations]

\* saveGraph: the document is overwritten with the graph of the call,
\* whatever it holds by then
saveGraph(stored, graph) == graph

\* the first error the validation loop of createEntities throws, "" if none
RECURSIVE createEntitiesError(_, _, _)
createEntitiesError(g, list, i) ==
    IF i > Len(list) THEN ""
    ELSE IF some(g.entities, LAMBDA e : e.name = list[i].name)
         THEN "already exists"
    ELSE IF ~isValidEntityType(list[i].entityType)
         THEN "Invalid entity type"
    ELSE createEntitiesError(g, list, i + 1)

\* createEntities without the call to validateEntityType
createEntities_noTypeCheck(g, list) ==
    IF \E i \in 1..Len(list) : some(g.entities, LAMBDA e : e.name = list[i].name)
    THEN Threw(g, "already exists")
    ELSE Saved([g EXCEPT !.entities = g.entities \o list])

createEntities(g, list) ==
    LET err == createEntitiesError(g, list, 1) IN
    IF err # "" THEN Threw(g, err)
    ELSE Saved([g EXCEPT !.entities = g.entities \o list])

\* the first error the validation loop of createRelations throws, "" if none
RECURSIVE createRelationsError(_, _, _)
createRelationsError(g, list, i) ==
    IF i > Len(list) THEN ""
    ELSE IF ~some(g.entities, LAMBDA e : e.name = list[i].from)
         THEN "not found"
    ELSE IF ~some(g.entities, LAMBDA e : e.name = list[i].to)
         THEN "not found"
    ELSE IF list[i].relationType \notin VALID_RELATION_TYPES
         THEN "Invalid relation type"
    ELSE IF some(g.relations, LAMBDA r : /\ r.from = list[i].from
                                         /\ r.to = list[i].to
                                         /\ r.relationType = list[i].relationType)
         THEN "already exists"
    ELSE createRelationsError(g, list, i + 1)

\* createRelations without the test that both endpoints are stored
createRelations_noEndpointCheck(g, list) ==
    IF \E i \in 1..Len(list) : list[i].relationType \notin VALID_RELATION_TYPES
    THEN Threw(g, "Invalid relation type")
    ELSE IF \E i \in 1..Len(list) :
               some(g.relations, LAMBDA r : /\ r.from = list[i].from
                                            /\ r.to = list[i].to
                                            /\ r.relationType = list[i].relationType)
    THEN Threw(g, "already exists")
    ELSE Saved([g EXCEPT !.relations = g.relations \o list])

\* createRelations without the test for an already stored triple
createRelations_noDuplicateCheck(g, list) ==
    IF \E i \in 1..Len(list) :
          \/ ~some(g.entities, LAMBDA e : e.name = list[i].from)
          \/ ~some(g.entities, LAMBDA e : e.name = list[i].to)
    THEN Threw(g, "not found")
    ELSE IF \E i \in 1..Len(list) : list[i].relationType \notin VALID_RELATION_TYPES
    THEN Threw(g, "Invalid relation type")
    ELSE Saved([g EXCEPT !.relations = g.relations \o list])

createRelations(g, list) ==
    LET err == createRelationsError(g, list, 1) IN
    IF err # "" THEN Threw(g, err)
    ELSE Saved([g EXCEPT !.relations = g.relations \o list])

\* addObservations that skips the texts the entity already holds
addObservations_deduplicating(g, entityName, observations) ==
    LET i == findIndex(g.entities, LAMBDA e : e.name = entityName) IN
    IF i = 0 THEN Threw(g, "not found")
    ELSE Saved([g EXCEPT !.entities[i].observations =
                   @ \o filter(observations, LAMBDA o : ~arrayIncludes(@, o))])

addObservations(g, entityName, observations) ==
    LET i == findIndex(g.entities, LAMBDA e : e.name = entityName) IN
    IF i = 0 THEN Threw(g, "not found")
    ELSE Saved([g EXCEPT !.entities[i].observations = @ \o observations])

\* deleteEntities whose cascade looks at the from of a relation only
deleteEntities_fromOnly(g, entityNames) ==
    Saved([entities  |-> filter(g.entities,
                                LAMBDA e : ~arrayIncludes(entityNames, e.name)),
           relations |-> filter(g.relations,
                                LAMBDA r : ~arrayIncludes(entityNames, r.from))])

deleteEntities(g, entityNames) ==
    Saved([entities  |-> filter(g.entities,
                                LAMBDA e : ~arrayIncludes(entityNames, e.name)),
           relations |-> filter(g.relations,
                                LAMBDA r : /\ ~arrayIncludes(entityNames, r.from)
                                           /\ ~arrayIncludes(entityNames, r.to))])

\* the loop of deleteObservations over the deletions, from the i-th on
RECURSIVE deleteObservationsFrom(_, _, _)
deleteObservationsFrom(ents, deletions, i) ==
    IF i > Len(deletions) THEN ents
    ELSE LET k == findIndex(ents, LAMBDA e : e.name = deletions[i].entityName)
             next == IF k = 0 THEN ents
                     ELSE [ents EXCEPT ![k].observations =
                              filter(@, LAMBDA o :
                                  ~arrayIncludes(deletions[i].observations, o))]
         IN deleteObservationsFrom(next, deletions, i + 1)

deleteObservations(g, deletions) ==
    Saved([g EXCEPT !.entities = deleteObservationsFrom(g.entities, deletions, 1)])

deleteRelations(g, list) ==
    Saved([g EXCEPT !.relations =
        filter(g.relations, LAMBDA r :
            ~some(list, LAMBDA toDelete : /\ r.from = toDelete.from
                                          /\ r.to = toDelete.to
                                          /\ r.relationType = toDelete.relationType))])

\* String.prototype.split(/\s+/) from position i on, cur being the term read
\* so far: a run of whitespace ends the term, also an empty one
RECURSIVE splitFrom(_, _, _)
splitFrom(s, i, cur) ==
    IF i > Len(s) THEN <<cur>>
    ELSE IF s[i] \in Whitespace
         THEN LET rest == {j \in (i + 1)..Len(s) : s[j] \notin Whitespace}
                  j == IF rest = {} THEN Len(s) + 1
                       ELSE CHOOSE m \in rest : \A n \in rest : m <= n
              IN <<cur>> \o splitFrom(s, j, <<>>)
    ELSE splitFrom(s, i + 1, Append(cur, s[i]))

split(s) == splitFrom(s, 1, <<>>)

\* the test searchNodes applies to one entity and one term
termMatches(entity, term) ==
    \/ includes(toLowerCase(entity.name), term)
    \/ includes(toLowerCase(entity.entityType), term)
    \/ \E i \in 1..Len(entity.observations) :
           includes(toLowerCase(entity.observations[i]), term)

searchNodes(g, query) ==
    LET terms == split(toLowerCase(query))
        matchingEntityNames ==
            {g.entities[i].name : i \in
                {k \in 1..Len(g.entities) :
                    \A t \in 1..Len(terms) : termMatches(g.entities[k], terms[t])}}
    IN [entities  |-> filter(g.entities, LAMBDA e : e.name \in matchingEntityNames),
        relations |-> filter(g.relations, LAMBDA r : /\ r.from \in matchingEntityNames
                                                     /\ r.to \in matchingEntityNames)]

openNodes(g, names) ==
    [entities  |-> filter(g.entities, LAMBDA e : arrayIncludes(names, e.name)),
     relations |-> filter(g.relations, LAMBDA r : /\ arrayIncludes(names, r.from)
                                                  /\ arrayIncludes(names, r.to))]

----------------------------------------------------------------------------
(* Query layer: findRelatedConcepts                                        *)

S_related_to_ == <<"r","e","l","a","t","e","d","_","t","o"," ">>
S_prerequisite_for_ == <<"p","r","e","r","e","q","u","i","s","i","t","e","_","f","o","r"," ">>
S_is_prerequisite_for_this == <<" ","i","s","_","p","r","e","r","e","q","u","i","s","i","t","e","_","f","o","r"," ","t","h","i","s">>

\* graph.entities.find(e => e.name === name && e.entityType === type), as a
\* list holding the entity found, if any
findEntity(g, name, type) ==
    LET found == {i \in 1..Len(g.entities) :
                     g.entities[i].name = name /\ g.entities[i].entityType = type}
    IN IF found = {} THEN <<>>
       ELSE <<g.entities[CHOOSE i \in found : \A j \in found : i <= j]>>

\* the entities of type `type` that have a relation of type relationType to
\* `name`, in the order of the relations
RECURSIVE sourcesOf(_, _, _, _, _)
sourcesOf(g, name, relationType, type, i) ==
    IF i > Len(g.relations) THEN <<>>
    ELSE LET relation == g.relations[i]
             found == IF relation.relationType = relationType /\ relation.to = name
                      THEN findEntity(g, relation.from, type)
                      ELSE <<>>
         IN found \o sourcesOf(g, name, relationType, type, i + 1)

\* the concept at the other end of the relation, <<>> (null) when the
\* relation does not touch `name`
otherEnd(relation, name) ==
    IF relation.from = name THEN relation.to
    ELSE IF relation.to = name THEN relation.from
    ELSE <<>>

\* the text the path gains when the relation is followed from `name`
relationDescription(relation, name) ==
    IF relation.relationType = T_related_to
    THEN S_related_to_ \o otherEnd(relation, name)
    ELSE IF relation.from = name
    THEN S_prerequisite_for_ \o relation.to
    ELSE relation.from \o S_is_prerequisite_for_this

\* the loop over graph.relations without the processed set
RECURSIVE enqueueNeighbours_noVisitedSet(_, _, _, _, _)
enqueueNeighbours_noVisitedSet(g, b, item, relationType, i) ==
    IF i > Len(g.relations) THEN b
    ELSE LET relation == g.relations[i]
             nextConcept == IF relation.relationType = relationType
                            THEN otherEnd(relation, item.name)
                            ELSE <<>>
             b1 == IF nextConcept # <<>>
                   THEN [b EXCEPT
                           !.queue = Append(@,
                               [name |-> nextConcept,
                                currentDepth |-> item.currentDepth + 1,
                                path |-> Append(item.path,
                                                relationDescription(relation, item.name))])]
                   ELSE b
         IN enqueueNeighbours_noVisitedSet(g, b1, item, relationType, i + 1)

\* the loop over graph.relations that queues a neighbour at the depth of the
\* item it was reached from
RECURSIVE enqueueNeighbours_keepingDepth(_, _, _, _, _)
enqueueNeighbours_keepingDepth(g, b, item, relationType, i) ==
    IF i > Len(g.relations) THEN b
    ELSE LET relation == g.relations[i]
             nextConcept == IF relation.relationType = relationType
                            THEN otherEnd(relation, item.name)
                            ELSE <<>>
             b1 == IF nextConcept # <<>> /\ nextConcept \notin b.processedConcepts
                   THEN [b EXCEPT
                           !.processedConcepts = @ \cup {nextConcept},
                           !.queue = Append(@,
                               [name |-> nextConcept,
                                currentDepth |-> item.currentDepth,
                                path |-> Append(item.path,
                                                relationDescription(relation, item.name))])]
                   ELSE b
         IN enqueueNeighbours_keepingDepth(g, b1, item, relationType, i + 1)

\* one of the two loops over graph.relations of an iteration, from the i-th
\* relation on: b carries the queue and the processed set
RECURSIVE enqueueNeighbours(_, _, _, _, _)
enqueueNeighbours(g, b, item, relationType, i) ==
    IF i > Len(g.relations) THEN b
    ELSE LET relation == g.relations[i]
             nextConcept == IF relation.relationType = relationType
                            THEN otherEnd(relation, item.name)
                            ELSE <<>>
             b1 == IF nextConcept # <<>> /\ nextConcept \notin b.processedConcepts
                   THEN [b EXCEPT
                           !.processedConcepts = @ \cup {nextConcept},
                           !.queue = Append(@,
                               [name |-> nextConcept,
                                currentDepth |-> item.currentDepth + 1,
                                path |-> Append(item.path,
                                                relationDescription(relation, item.name))])]
                   ELSE b
         IN enqueueNeighbours(g, b1, item, relationType, i + 1)

\* the iteration that skips an item already at the depth asked for
bfsIteration_depthExclusive(g, b) ==
    LET item == Head(b.queue)
        b0 == [b EXCEPT !.queue = Tail(@)]
        currentConcept == findEntity(g, item.name, T_concept)
    IN IF item.currentDepth >= b.depth /\ item.name # b.conceptName THEN b0
       ELSE IF currentConcept = <<>> THEN b0
       ELSE LET b1 == IF item.name # b.conceptName
                      THEN [b0 EXCEPT !.relatedConcepts = Append(@,
                               [concept |-> currentConcept[1],
                                relationPath |-> item.path,
                                depth |-> item.currentDepth,
                                courses |-> sourcesOf(g, item.name, T_covers, T_course, 1),
                                resources |-> sourcesOf(g, item.name, T_helps_with,
                                                        T_resource, 1)])]
                      ELSE b0
                b2 == enqueueNeighbours(g, b1, item, T_related_to, 1)
            IN enqueueNeighbours(g, b2, item, T_prerequisite_for, 1)

\* one iteration of the while loop of findRelatedConcepts
bfsIteration(g, b) ==
    LET item == Head(b.queue)
        b0 == [b EXCEPT !.queue = Tail(@)]
        currentConcept == findEntity(g, item.name, T_concept)
    IN IF item.currentDepth > b.depth /\ item.name # b.conceptName THEN b0
       ELSE IF currentConcept = <<>> THEN b0
       ELSE LET b1 == IF item.name # b.conceptName
                      THEN [b0 EXCEPT !.relatedConcepts = Append(@,
                               [concept |-> currentConcept[1],
                                relationPath |-> item.path,
                                depth |-> item.currentDepth,
                                courses |-> sourcesOf(g, item.name, T_covers, T_course, 1),
                                resources |-> sourcesOf(g, item.name, T_helps_with,
                                                        T_resource, 1)])]
                      ELSE b0
                b2 == enqueueNeighbours(g, b1, item, T_related_to, 1)
            IN enqueueNeighbours(g, b2, item, T_prerequisite_for, 1)

\* relatedConcepts.sort((a, b) => a.depth - b.depth): the sort is stable, so
\* the entries of each depth keep their order
RECURSIVE sortByDepth(_, _)
sortByDepth(list, d) ==
    IF \A i \in 1..Len(list) : list[i].depth < d THEN <<>>
    ELSE FilterIdx(list, {i \in 1..Len(list) : list[i].depth = d}, 1)
         \o sortByDepth(list, d + 1)

\* the state of findRelatedConcepts before the first iteration
bfsStart(conceptName, depth) ==
    [pc |-> "loop",
     conceptName |-> conceptName,
     depth |-> depth,
     relatedConcepts |-> <<>>,
     processedConcepts |-> {conceptName},
     queue |-> <<[name |-> conceptName, currentDepth |-> 0, path |-> <<>>]>>]

----------------------------------------------------------------------------
(* Session workflow: the endsession tool                                   *)

S_Concept_ == <<"C","o","n","c","e","p","t","_">>
S_underscore == <<"_">>
S_name_ == <<"n","a","m","e",":">>
S_status_ == <<"s","t","a","t","u","s",":">>
S_updated_ == <<"u","p","d","a","t","e","d",":">>
S_last_studied_ == <<"l","a","s","t","_","s","t","u","d","i","e","d",":">>
S_completed == <<"c","o","m","p","l","e","t","e","d">>
S_unknown == <<"u","n","k","n","o","w","n">>

\* a missing property reads as undefined, which `|| dflt` replaces; so does
\* an empty string or an empty value
Get(rec, field, dflt) ==
    IF field \in DOMAIN rec /\ rec[field] # <<>> THEN rec[field] ELSE dflt

\* the lookup that takes the last record of the stage name
findStage_latest(stages, name) ==
    LET found == {i \in 1..Len(stages) :
                     "stage" \in DOMAIN stages[i] /\ stages[i].stage = name}
    IN IF found = {} THEN <<>>
       ELSE <<stages[CHOOSE i \in found : \A j \in found : i >= j]>>

\* Array.prototype.find on the stage name; <<>> when no record has it
findStage(stages, name) ==
    LET i == findIndex(stages, LAMBDA r : "stage" \in DOMAIN r /\ r.stage = name)
    IN IF i = 0 THEN <<>> ELSE <<stages[i]>>

\* summaryStage?.stageData?.field || dflt
stageField(found, field, dflt) ==
    IF found = <<>> THEN dflt ELSE Get(found[1].stageData, field, dflt)

\* JSON.parse(JSON.stringify(v)) of an array of strings or of plain objects
\* whose properties are all strings gives back an equal value
jsonRoundTrip(v) == v

assembleEndSessionArgs(stages, date) ==
    LET summaryStage == findStage(stages, "summary")
        conceptsLearnedStage == findStage(stages, "conceptsLearned")
        assignmentUpdatesStage == findStage(stages, "assignmentUpdates")
        newConceptsStage == findStage(stages, "newConcepts")
        courseStatusStage == findStage(stages, "courseStatus")
    IN [date |-> date,
        summary |-> stageField(summaryStage, "summary", <<>>),
        duration |-> stageField(summaryStage, "duration", S_unknown),
        course |-> stageField(summaryStage, "course", <<>>),
        conceptsLearned |-> stageField(conceptsLearnedStage, "concepts", <<>>),
        assignmentUpdates |-> stageField(assignmentUpdatesStage, "updates", <<>>),
        courseStatus |-> stageField(courseStatusStage, "courseStatus", <<>>),
        courseObservation |-> stageField(courseStatusStage, "courseObservation", <<>>),
        newConcepts |-> stageField(newConceptsStage, "concepts", <<>>)]

\* the stageData a stage stores when the call carries none
defaultStageData(stage) ==
    CASE stage = "summary" -> [summary |-> <<>>, duration |-> <<>>, course |-> <<>>]
      [] stage = "conceptsLearned" -> [concepts |-> <<>>]
      [] stage = "assignmentUpdates" -> [updates |-> <<>>]
      [] stage = "newConcepts" -> [concepts |-> <<>>]
      [] stage = "courseStatus" -> [courseStatus |-> <<>>, courseObservation |-> <<>>]

StageNames == {"summary", "conceptsLearned", "assignmentUpdates", "newConcepts",
               "courseStatus"}

\* the result of a case of the switch; params.stageData is <<>> when the call
\* carries none, <<data>> otherwise
stageResultOf(params, previousStages, date) ==
    IF params.stage = "assembly"
    THEN [stage |-> "assembly",
          stageNumber |-> params.stageNumber,
          analysis |-> "Final assembly of end-session arguments",
          stageData |-> assembleEndSessionArgs(previousStages, date),
          completed |-> TRUE]
    ELSE [stage |-> params.stage,
          stageNumber |-> params.stageNumber,
          analysis |-> params.analysis,
          stageData |-> IF params.stageData = <<>>
                        THEN defaultStageData(params.stage)
                        ELSE params.stageData[1],
          completed |-> ~params.nextStageNeeded]

\* the stage processing that makes a record of any stage name
processStage_anyStageName(params, previousStages, date) ==
    IF params.stage \in StageNames \cup {"assembly"}
    THEN [ok |-> TRUE, error |-> "",
          result |-> stageResultOf(params, previousStages, date)]
    ELSE [ok |-> TRUE, error |-> "",
          result |-> [stage |-> params.stage,
                      stageNumber |-> params.stageNumber,
                      analysis |-> params.analysis,
                      stageData |-> <<>>,
                      completed |-> ~params.nextStageNeeded]]

\* the switch on the stage name; the default case throws
processStage(params, previousStages, date) ==
    IF params.stage \in StageNames \cup {"assembly"}
    THEN [ok |-> TRUE, error |-> "",
          result |-> stageResultOf(params, previousStages, date)]
    ELSE [ok |-> FALSE, error |-> "Unknown stage", result |-> <<>>]

analysisStage(stageResult) ==
    [type |-> "analysis_stage",
     stage |-> stageResult.stage,
     stageNumber |-> stageResult.stageNumber,
     analysis |-> stageResult.analysis,
     stageData |-> stageResult.stageData,
     completed |-> stageResult.completed]

\* the storing that keeps only the stage records when a stage is revised
storeStage_droppingEvents(sessionState, params, stageResult) ==
    IF params.isRevision /\ params.revisesStage # 0
    THEN LET analysisStages == filter(sessionState, LAMBDA item : item.type = "analysis_stage")
         IN IF params.revisesStage <= Len(analysisStages)
            THEN [analysisStages EXCEPT ![params.revisesStage] = analysisStage(stageResult)]
            ELSE Append(analysisStages, analysisStage(stageResult))
    ELSE Append(sessionState, analysisStage(stageResult))

\* the session's record list after the stage result is stored
storeStage(sessionState, params, stageResult) ==
    IF params.isRevision /\ params.revisesStage # 0
    THEN LET analysisStages == filter(sessionState, LAMBDA item : item.type = "analysis_stage")
             others == filter(sessionState, LAMBDA item : item.type # "analysis_stage")
             revised == IF params.revisesStage <= Len(analysisStages)
                        THEN [analysisStages EXCEPT ![params.revisesStage] =
                                 analysisStage(stageResult)]
                        ELSE Append(analysisStages, analysisStage(stageResult))
         IN others \o revised
    ELSE Append(sessionState, analysisStage(stageResult))

DigitChars == <<"0", "1", "2", "3", "4", "5", "6", "7", "8", "9">>

\* the decimal text of a non-negative integer, as a template literal prints it
RECURSIVE decimal(_)
decimal(n) ==
    IF n < 10 THEN <<DigitChars[n + 1]>>
    ELSE decimal(n \div 10) \o <<DigitChars[(n % 10) + 1]>>

\* date.replace(/-/g, "")
removeDashes(date) == filter(date, LAMBDA c : c # "-")

\* `Concept_${date.replace(/-/g, "")}_${i + 1}` for the 0-based index i
conceptEntityName(date, i) ==
    S_Concept_ \o removeDashes(date) \o S_underscore \o decimal(i + 1)

\* run step F on the graph of r unless an earlier step threw
Then(r, F(_)) == IF r.ok THEN F(r.graph) ELSE r

\* step "2": one concept entity per learned-concept string, linked to the course
createLearnedConcepts(g, args) ==
    LET conceptsLearned == jsonRoundTrip(args.conceptsLearned)
        conceptEntities ==
            [i \in 1..Len(conceptsLearned) |->
                [name |-> conceptEntityName(args.date, i - 1),
                 entityType |-> T_concept,
                 observations |-> <<conceptsLearned[i]>>]]
        conceptRelations ==
            [i \in 1..Len(conceptEntities) |->
                [from |-> args.course,
                 to |-> conceptEntities[i].name,
                 relationType |-> T_contains]]
    IN IF Len(conceptEntities) > 0
       THEN Then(createEntities(g, conceptEntities),
                 LAMBDA g1 : createRelations(g1, conceptRelations))
       ELSE Saved(g)

\* step "3", one assignment update
updateAssignment(g, course, assignment) ==
    LET assignmentGraph == searchNodes(g, S_name_ \o assignment.name) IN
    IF Len(assignmentGraph.entities) > 0
    THEN LET assignmentEntity == assignmentGraph.entities[1]
             observations ==
                 Append(filter(assignmentEntity.observations,
                               LAMBDA o : ~startsWith(o, S_status_)),
                        S_status_ \o assignment.status)
             recreated ==
                 Then(deleteEntities(g, <<assignment.name>>),
                      LAMBDA g1 : createEntities(g1,
                          <<[name |-> assignment.name,
                             entityType |-> T_assignment,
                             observations |-> observations]>>))
         IN IF assignment.status = S_completed
            THEN Then(recreated,
                      LAMBDA g2 : createRelations(g2,
                          <<[from |-> course,
                             to |-> assignment.name,
                             relationType |-> T_created_for]>>))
            ELSE recreated
    ELSE Saved(g)

\* step "3", the loop over the assignment updates from the i-th on
RECURSIVE updateAssignmentsFrom(_, _, _, _)
updateAssignmentsFrom(r, course, updates, i) ==
    IF i > Len(updates) \/ ~r.ok THEN r
    ELSE updateAssignmentsFrom(updateAssignment(r.graph, course, updates[i]),
                               course, updates, i + 1)

updateAssignments(g, args) ==
    updateAssignmentsFrom(Saved(g), args.course,
                          jsonRoundTrip(args.assignmentUpdates), 1)

\* step "4": the course's status: and updated: observations
updateCourseStatus(g, args) ==
    LET courseGraph == searchNodes(g, S_name_ \o args.course) IN
    IF Len(courseGraph.entities) > 0
    THEN LET courseEntity == courseGraph.entities[1]
             kept == filter(courseEntity.observations,
                            LAMBDA o : /\ ~startsWith(o, S_status_)
                                       /\ ~startsWith(o, S_updated_))
             stamped == kept \o <<S_status_ \o args.courseStatus,
                                  S_updated_ \o args.date>>
             observations == IF args.courseObservation # <<>>
                             THEN Append(stamped, args.courseObservation)
                             ELSE stamped
         IN Then(deleteEntities(g, <<args.course>>),
                 LAMBDA g1 : createEntities(g1,
                     <<[name |-> args.course,
                        entityType |-> T_course,
                        observations |-> observations]>>))
    ELSE Saved(g)

\* step "5": the brand-new concepts, linked to the course
createNewConcepts(g, args) ==
    LET newConcepts == jsonRoundTrip(args.newConcepts)
        newConceptEntities ==
            [i \in 1..Len(newConcepts) |->
                [name |-> newConcepts[i].name,
                 entityType |-> T_concept,
                 observations |-> <<newConcepts[i].description,
                                    S_last_studied_ \o args.date>>]]
        conceptRelations ==
            [i \in 1..Len(newConceptEntities) |->
                [from |-> args.course,
                 to |-> newConceptEntities[i].name,
                 relationType |-> T_contains]]
    IN IF Len(newConcepts) > 0
       THEN Then(createEntities(g, newConceptEntities),
                 LAMBDA g1 : createRelations(g1, conceptRelations))
       ELSE Saved(g)

\* the graph steps that leave the graph as it was when one of them throws
recordSession_rollingBack(g, args) ==
    LET r == Then(Then(Then(createLearnedConcepts(g, args),
                            LAMBDA g1 : updateAssignments(g1, args)),
                       LAMBDA g2 : updateCourseStatus(g2, args)),
                  LAMBDA g3 : createNewConcepts(g3, args))
    IN IF r.ok THEN r ELSE Threw(g, r.error)

\* the graph steps of the final assembly, up to the first one that throws
recordSession(g, args) ==
    Then(Then(Then(createLearnedConcepts(g, args),
                   LAMBDA g1 : updateAssignments(g1, args)),
              LAMBDA g2 : updateCourseStatus(g2, args)),
         LAMBDA g3 : createNewConcepts(g3, args))

sessionCompleted(args) ==
    [type |-> "session_completed",
     timestamp |-> args.date,
     date |-> args.date,
     summary |-> args.summary,
     course |-> args.course]

\* the test that lets every assembly stage record the session
isFinalAssembly_anyAssembly(params) == params.stage = "assembly"

\* params.stage === "assembly" && !params.nextStageNeeded
isFinalAssembly(params) == params.stage = "assembly" /\ ~params.nextStageNeeded

\* the final assembly that marks the session completed though a step threw
finalAssembly_markingFailure(store1, sessionId, g, args) ==
    LET recorded == recordSession(g, args)
        marked == [store1 EXCEPT ![sessionId] = Append(@, sessionCompleted(args))]
    IN IF recorded.ok
       THEN [success |-> TRUE, error |-> "", sessions |-> marked,
             graph |-> recorded.graph]
       ELSE [success |-> FALSE, error |-> "Error recording study session",
             sessions |-> marked, graph |-> recorded.graph]

\* the final assembly: the graph steps, then the session_completed marker;
\* store1 holds the stage record already
finalAssembly(store1, sessionId, g, args) ==
    LET recorded == recordSession(g, args)
    IN IF recorded.ok
       THEN [success |-> TRUE, error |-> "",
             sessions |-> [store1 EXCEPT ![sessionId] =
                              Append(@, sessionCompleted(args))],
             graph |-> recorded.graph]
       ELSE [success |-> FALSE, error |-> "Error recording study session",
             sessions |-> store1, graph |-> recorded.graph]

\* the endsession handler once the session is found
handleStage(store, g, params, date) ==
    LET sessionState == store[params.sessionId]
        staged == processStage(params, sessionState, date)
    IN IF ~staged.ok
       THEN [success |-> FALSE, error |-> staged.error,
             sessions |-> store, graph |-> g]
       ELSE
       LET stored == storeStage(sessionState, params, staged.result)
           store1 == [store EXCEPT ![params.sessionId] = stored]
       IN IF isFinalAssembly(params)
          THEN finalAssembly(store1, params.sessionId, g, staged.result.stageData)
          ELSE [success |-> TRUE, error |-> "", sessions |-> store1, graph |-> g]

\* the endsession handler that starts a session for an id it does not find
endsession_creatingSession(store, g, params, date) ==
    IF params.sessionId \notin DOMAIN store
    THEN handleStage(store @@ (params.sessionId :> <<>>), g, params, date)
    ELSE handleStage(store, g, params, date)

\* the endsession handler: the session store, the graph and the result after
\* the call, date being the clock's day
endsession(store, g, params, date) ==
    IF params.sessionId \notin DOMAIN store
    THEN [success |-> FALSE, error |-> "Session not found",
          sessions |-> store, graph |-> g]
    ELSE handleStage(store, g, params, date)

----------------------------------------------------------------------------
(* Query layer: getUpcomingDeadlines                                       *)
(*                                                                         *)
(* Time is counted in instants, DayLength of them to a day, from           *)
(* 2025-01-01T00:00Z; the server's time zone is UTC and the dates are      *)
(* those of January 2025.                                                  *)

\* the instants of a day
DayLength == 2

S_Due_ == <<"D","u","e",":">>
S_Date_ == <<"D","a","t","e",":">>
S_2025_01_ == <<"2","0","2","5","-","0","1","-">>

\* the time value of an Invalid Date
NaN == -1

\* s.split(':')[1]: the text between the first ':' and the next one, the
\* string s holding a ':'
secondPart(s) ==
    LET first == CHOOSE i \in 1..Len(s) : s[i] = ":" /\ \A j \in 1..(i - 1) : s[j] # ":"
        later == {i \in (first + 1)..Len(s) : s[i] = ":"}
        last == IF later = {} THEN Len(s)
                ELSE (CHOOSE i \in later : \A j \in later : i <= j) - 1
    IN SubSeq(s, first + 1, last)

\* String.prototype.trim
trim(s) ==
    LET kept == {i \in 1..Len(s) : s[i] \notin Whitespace}
    IN IF kept = {} THEN <<>>
       ELSE SubSeq(s, CHOOSE i \in kept : \A j \in kept : i <= j,
                      CHOOSE i \in kept : \A j \in kept : i >= j)

\* the value of a decimal digit, 10 for any other character
digitValue(c) ==
    IF \E d \in 1..10 : DigitChars[d] = c
    THEN (CHOOSE d \in 1..10 : DigitChars[d] = c) - 1
    ELSE 10

\* new Date(text).getTime(): a date "2025-01-DD" is the midnight that starts
\* the day, any other text is an Invalid Date
parseDate(text) ==
    IF /\ Len(text) = 10
       /\ SubSeq(text, 1, 8) = S_2025_01_
       /\ digitValue(text[9]) < 10
       /\ digitValue(text[10]) < 10
       /\ 10 * digitValue(text[9]) + digitValue(text[10]) \in 1..31
    THEN (10 * digitValue(text[9]) + digitValue(text[10]) - 1) * DayLength
    ELSE NaN

\* date.toISOString().slice(0, 10)
isoDate(t) ==
    LET day == (t \div DayLength) + 1
    IN S_2025_01_ \o (IF day < 10 THEN <<"0">> ELSE <<>>) \o decimal(day)

\* new Date(observations.find(o => o.startsWith(prefix)).split(':')[1].trim()),
\* as a list holding the time value, empty when no observation has the prefix
datedBy(entity, prefix) ==
    LET k == findIndex(entity.observations, LAMBDA o : startsWith(o, prefix))
    IN IF k = 0 THEN <<>>
       ELSE <<parseDate(trim(secondPart(entity.observations[k])))>>

\* the range test that leaves out both ends of the window
inRange_exclusive(dueDate, today, endDate) ==
    dueDate # NaN /\ dueDate > today /\ dueDate < endDate

\* dueDate >= today && dueDate <= endDate, false for an Invalid Date
inRange(dueDate, today, endDate) ==
    dueDate # NaN /\ dueDate >= today /\ dueDate <= endDate

\* Math.ceil((dueDate - today) / day) for dueDate >= today
daysRemaining(dueDate, today) == (dueDate - today + DayLength - 1) \div DayLength

\* the courses of the term, from the i-th relation on
RECURSIVE termCourses(_, _, _)
termCourses(g, termName, i) ==
    IF i > Len(g.relations) THEN <<>>
    ELSE LET relation == g.relations[i]
             found == IF /\ relation.relationType = T_part_of
                         /\ relation.from = relation.to
                         /\ relation.to = termName
                      THEN findEntity(g, relation.from, T_course)
                      ELSE <<>>
         IN found \o termCourses(g, termName, i + 1)

\* the deadlines one of the two relation loops finds for a course, from the
\* i-th relation on: the assignments (assigned_in to the course, "Due:") when
\* type is assignment, the exams (scheduled_for from the course, "Date:")
\* when it is exam
RECURSIVE courseDeadlines(_, _, _, _, _, _)
courseDeadlines(g, course, type, today, endDate, i) ==
    IF i > Len(g.relations) THEN <<>>
    ELSE LET relation == g.relations[i]
             linked == IF type = T_assignment
                       THEN IF relation.relationType = T_assigned_in
                               /\ relation.to = course.name
                            THEN findEntity(g, relation.from, T_assignment)
                            ELSE <<>>
                       ELSE IF relation.relationType = T_scheduled_for
                               /\ relation.from = course.name
                            THEN findEntity(g, relation.to, T_exam)
                            ELSE <<>>
             dated == IF linked = <<>> THEN <<>>
                      ELSE datedBy(linked[1], IF type = T_assignment THEN S_Due_ ELSE S_Date_)
             found == IF dated # <<>> /\ inRange(dated[1], today, endDate)
                      THEN <<[entity |-> linked[1],
                              dueDate |-> dated[1],
                              course |-> course,
                              daysRemaining |-> daysRemaining(dated[1], today)]>>
                      ELSE <<>>
         IN found \o courseDeadlines(g, course, type, today, endDate, i + 1)

\* the deadlines of the courses from the k-th on
RECURSIVE allDeadlines(_, _, _, _, _)
allDeadlines(g, courses, today, endDate, k) ==
    IF k > Len(courses) THEN <<>>
    ELSE courseDeadlines(g, courses[k], T_assignment, today, endDate, 1)
         \o courseDeadlines(g, courses[k], T_exam, today, endDate, 1)
         \o allDeadlines(g, courses, today, endDate, k + 1)

\* deadlines.sort((a, b) => a.dueDate.getTime() - b.dueDate.getTime()): the
\* sort is stable; n is the number of items already placed
RECURSIVE sortByDueDate(_, _)
sortByDueDate(list, n) ==
    IF n >= Len(list) THEN list
    ELSE LET x == list[n + 1]
             after == {i \in 1..n : list[i].dueDate > x.dueDate}
             at == IF after = {} THEN n + 1
                   ELSE CHOOSE i \in after : \A j \in after : i <= j
         IN sortByDueDate(SubSeq(list, 1, at - 1) \o <<x>>
                          \o SubSeq(list, at, n) \o SubSeq(list, n + 2, Len(list)),
                          n + 1)

\* getUpcomingDeadlines(termName, courseName, daysAhead) called at the instant
\* now; an absent filter is the empty string
getUpcomingDeadlines(g, termName, courseName, daysAhead, now) ==
    LET today == now
        endDate == now + daysAhead * DayLength
        inTerm == IF termName # <<>>
                  THEN termCourses(g, termName, 1)
                  ELSE filter(g.entities, LAMBDA e : e.entityType = T_course)
        relevantCourses == IF courseName # <<>>
                           THEN filter(inTerm, LAMBDA c : c.name = courseName)
                           ELSE inTerm
        deadlines == sortByDueDate(allDeadlines(g, relevantCourses, today, endDate, 1), 0)
    IN IF termName # <<>> /\ findEntity(g, termName, T_term) = <<>>
       THEN [ok |-> FALSE, error |-> "Term not found"]
       ELSE IF courseName # <<>> /\ relevantCourses = <<>>
       THEN [ok |-> FALSE, error |-> "Course not found"]
       ELSE [ok |-> TRUE,
             error |-> "",
             value |-> [deadlines |-> deadlines,
                        startDate |-> isoDate(today),
                        endDate |-> isoDate(endDate),
                        courseFilter |-> courseName,
                        termFilter |-> termName,
                        count |-> Len(deadlines)]]

----------------------------------------------------------------------------
(* Query layer: getCourseOverview                                          *)
(*                                                                         *)
(* Array.prototype.sort is computed as the engine of the build (Node, V8)  *)
(* computes it for a list shorter than 64: the leading run is found and,   *)
(* when it descends, reversed; the other items are placed by binary        *)
(* insertion.                                                              *)

S_Code_ == <<"C","o","d","e",":">>
S_Location_ == <<"L","o","c","a","t","i","o","n",":">>
S_Schedule_ == <<"S","c","h","e","d","u","l","e",":">>
S_Status_ == <<"S","t","a","t","u","s",":">>
S_NA == <<"N","/","A">>

\* the entities of type `type` that `name` has a relation of type
\* relationType to, in the order of the relations
RECURSIVE targetsOf(_, _, _, _, _)
targetsOf(g, name, relationType, type, i) ==
    IF i > Len(g.relations) THEN <<>>
    ELSE LET relation == g.relations[i]
             found == IF relation.relationType = relationType /\ relation.from = name
                      THEN findEntity(g, relation.to, type)
                      ELSE <<>>
         IN found \o targetsOf(g, name, relationType, type, i + 1)

\* the comparator of the three sorts: the difference of the dates when both
\* entities have an observation of the prefix, 0 otherwise; a NaN difference
\* is taken as 0 by the sort
dateOrder(a, b, prefix) ==
    LET aDate == datedBy(a, prefix)
        bDate == datedBy(b, prefix)
    IN IF aDate # <<>> /\ bDate # <<>> /\ aDate[1] # NaN /\ bDate[1] # NaN
       THEN aDate[1] - bDate[1]
       ELSE 0

\* the last place of the run that starts the list, idx being the next place
\* to look at
RECURSIVE runEnd(_, _, _, _)
runEnd(list, prefix, isDescending, idx) ==
    IF idx > Len(list) THEN Len(list)
    ELSE LET order == dateOrder(list[idx], list[idx - 1], prefix)
         IN IF (isDescending /\ order >= 0) \/ (~isDescending /\ order < 0)
            THEN idx - 1
            ELSE runEnd(list, prefix, isDescending, idx + 1)

reverse(list) == [i \in 1..Len(list) |-> list[Len(list) + 1 - i]]

\* the list with its leading run made ascending, and the length of the run;
\* the list holds two items at least
countAndMakeRun(list, prefix) ==
    LET isDescending == dateOrder(list[2], list[1], prefix) < 0
        runLength == runEnd(list, prefix, isDescending, 3)
    IN [list |-> IF isDescending
                 THEN reverse(SubSeq(list, 1, runLength))
                      \o SubSeq(list, runLength + 1, Len(list))
                 ELSE list,
        runLength |-> runLength]

\* the binary search for the place of the pivot among the items left..right-1
\* (counted from 0)
RECURSIVE insertionPlace(_, _, _, _, _)
insertionPlace(list, prefix, pivot, left, right) ==
    IF left >= right THEN left
    ELSE LET mid == left + ((right - left) \div 2)
         IN IF dateOrder(pivot, list[mid + 1], prefix) < 0
            THEN insertionPlace(list, prefix, pivot, left, mid)
            ELSE insertionPlace(list, prefix, pivot, mid + 1, right)

\* the items from start on (counted from 0) placed one by one
RECURSIVE binaryInsertionSort(_, _, _)
binaryInsertionSort(list, prefix, start) ==
    IF start >= Len(list) THEN list
    ELSE LET pivot == list[start + 1]
             left == insertionPlace(list, prefix, pivot, 0, start)
         IN binaryInsertionSort(SubSeq(list, 1, left) \o <<pivot>>
                                \o SubSeq(list, left + 1, start)
                                \o SubSeq(list, start + 2, Len(list)),
                                prefix, start + 1)

\* list.sort((a, b) => ...) with the comparator of the dates
sortByDate(list, prefix) ==
    IF Len(list) < 2 THEN list
    ELSE LET run == countAndMakeRun(list, prefix)
         IN binaryInsertionSort(run.list, prefix, run.runLength)

\* course.observations.find(o => o.startsWith(prefix))?.split(':')[1].trim() || 'N/A'
infoField(course, prefix) ==
    LET k == findIndex(course.observations, LAMBDA o : startsWith(o, prefix))
    IN IF k = 0 \/ trim(secondPart(course.observations[k])) = <<>> THEN S_NA
       ELSE trim(secondPart(course.observations[k]))

\* the first entity of the list, as a list: undefined is the empty list
firstOf(list) == IF list = <<>> THEN <<>> ELSE <<list[1]>>

\* getCourseOverview(courseName): [ok, error, value]
getCourseOverview(g, courseName) ==
    IF findEntity(g, courseName, T_course) = <<>>
    THEN [ok |-> FALSE, error |-> "Course not found", value |-> <<>>]
    ELSE [ok |-> TRUE, error |-> "",
          value |-> CHOOSE overview \in
              {[course |-> course[1],
                term |-> firstOf(targetsOf(g, courseName, T_part_of, T_term, 1)),
                professor |->
                    firstOf(targetsOf(g, courseName, T_taught_by, T_professor, 1)),
                info |-> [code |-> infoField(course[1], S_Code_),
                          location |-> infoField(course[1], S_Location_),
                          schedule |-> infoField(course[1], S_Schedule_),
                          status |-> infoField(course[1], S_Status_)],
                summary |-> [lectureCount |-> Len(lectures),
                             assignmentCount |-> Len(assignments),
                             examCount |-> Len(exams),
                             conceptCount |-> Len(concepts),
                             resourceCount |-> Len(resources),
                             noteCount |-> Len(notes)],
                lectures |-> lectures,
                assignments |-> assignments,
                exams |-> exams,
                concepts |-> concepts,
                resources |-> resources,
                notes |-> notes] :
                  course \in {findEntity(g, courseName, T_course)},
                  lectures \in
                      {sortByDate(sourcesOf(g, courseName, T_part_of, T_lecture, 1),
                                  S_Date_)},
                  assignments \in
                      {sortByDate(sourcesOf(g, courseName, T_assigned_in,
                                            T_assignment, 1), S_Due_)},
                  exams \in
                      {sortByDate(targetsOf(g, courseName, T_scheduled_for, T_exam, 1),
                                  S_Date_)},
                  concepts \in {targetsOf(g, courseName, T_covers, T_concept, 1)},
                  resources \in {sourcesOf(g, courseName, T_helps_with, T_resource, 1)},
                  notes \in {sourcesOf(g, courseName, T_created_for, T_note, 1)}} : TRUE]

----------------------------------------------------------------------------
(* Query layer: getAssignmentStatus and getTermOverview                    *)

S_Points_ == <<"P","o","i","n","t","s",":">>
S_Instructions_ == <<"I","n","s","t","r","u","c","t","i","o","n","s",":">>
S_StartDate_ == <<"S","t","a","r","t","D","a","t","e",":">>
S_EndDate_ == <<"E","n","d","D","a","t","e",":">>
S_not_started == <<"n","o","t","_","s","t","a","r","t","e","d">>
S_in_progress == <<"i","n","_","p","r","o","g","r","e","s","s">>

\* observations.find(o => o.startsWith(prefix))?.split(':')[1].trim(), the
\* empty string standing for undefined as well
observed(entity, prefix) ==
    LET k == findIndex(entity.observations, LAMBDA o : startsWith(o, prefix))
    IN IF k = 0 THEN <<>> ELSE trim(secondPart(entity.observations[k]))

\* observed(entity, prefix) || dflt
observedOr(entity, prefix, dflt) ==
    IF observed(entity, prefix) = <<>> THEN dflt ELSE observed(entity, prefix)

\* the list with the entities of `more` whose name it does not hold yet
RECURSIVE pushDistinct(_, _, _)
pushDistinct(list, more, i) ==
    IF i > Len(more) THEN list
    ELSE pushDistinct(IF \E k \in 1..Len(list) : list[k].name = more[i].name
                      THEN list
                      ELSE Append(list, more[i]),
                      more, i + 1)

\* the list with the entities of type `type` that have a relation of type
\* relationType to one of the concepts from the i-th on
RECURSIVE pushForConcepts(_, _, _, _, _, _)
pushForConcepts(g, list, concepts, relationType, type, i) ==
    IF i > Len(concepts) THEN list
    ELSE pushForConcepts(g,
                         pushDistinct(list,
                                      sourcesOf(g, concepts[i].name, relationType, type, 1),
                                      1),
                         concepts, relationType, type, i + 1)

\* the time that remains: null without a due date, NaN for a due date that
\* is no date, the difference of the instants otherwise
timeRemaining(dueDate, now) ==
    IF dueDate = <<>> THEN [is |-> "null"]
    ELSE IF parseDate(dueDate) = NaN THEN [is |-> "NaN"]
    ELSE [is |-> "number", value |-> parseDate(dueDate) - now]

\* getAssignmentStatus(assignmentName) called at the instant now:
\* [ok, error, value]
getAssignmentStatus(g, assignmentName, now) ==
    IF findEntity(g, assignmentName, T_assignment) = <<>>
    THEN [ok |-> FALSE, error |-> "Assignment not found", value |-> <<>>]
    ELSE [ok |-> TRUE, error |-> "",
          value |-> CHOOSE status \in
              {[assignment |-> assignment[1],
                course |-> firstOf(targetsOf(g, assignmentName, T_assigned_in, T_course, 1)),
                info |-> [status |-> observedOr(assignment[1], S_Status_, S_not_started),
                          dueDate |-> observed(assignment[1], S_Due_),
                          pointsWorth |-> observed(assignment[1], S_Points_),
                          instructions |-> observed(assignment[1], S_Instructions_),
                          timeRemaining |-> remaining,
                          daysRemaining |->
                              IF remaining.is = "number"
                              THEN [remaining EXCEPT
                                      !.value = daysRemaining(remaining.value, 0)]
                              ELSE remaining,
                          isOverdue |-> remaining.is = "number" /\ remaining.value < 0],
                concepts |-> concepts,
                resources |->
                    pushForConcepts(g, sourcesOf(g, assignmentName, T_helps_with,
                                                 T_resource, 1),
                                    concepts, T_helps_with, T_resource, 1),
                notes |->
                    pushForConcepts(g, sourcesOf(g, assignmentName, T_created_for,
                                                 T_note, 1),
                                    concepts, T_references, T_note, 1)] :
                  assignment \in {findEntity(g, assignmentName, T_assignment)},
                  remaining \in
                      {timeRemaining(observed(findEntity(g, assignmentName,
                                                         T_assignment)[1], S_Due_), now)},
                  concepts \in {targetsOf(g, assignmentName, T_covers, T_concept, 1)}} :
              TRUE]

\* an instant later than every date of January
Forever == 31 * DayLength

\* the deadlines getTermOverview returns at most
DeadlinesShown == 10

\* allDeadlines.slice(0, 10)
shown(list) ==
    IF Len(list) <= DeadlinesShown THEN list ELSE SubSeq(list, 1, DeadlinesShown)

\* Math.round((completed / total) * 100), 0 for no assignment
completionRate(completed, total) ==
    IF total > 0 THEN (200 * completed + total) \div (2 * total) ELSE 0

\* exams.find(e => date of e > new Date()), as a list
upcomingExam(exams, now) ==
    firstOf(filter(exams, LAMBDA e : /\ datedBy(e, S_Date_) # <<>>
                                     /\ datedBy(e, S_Date_)[1] # NaN
                                     /\ datedBy(e, S_Date_)[1] > now))

\* the entry of getTermOverview for one course
courseEntry(g, course, now) ==
    CHOOSE entry \in
        {[course |-> course,
          professor |-> firstOf(targetsOf(g, course.name, T_taught_by, T_professor, 1)),
          info |-> [code |-> observed(course, S_Code_),
                    schedule |-> observed(course, S_Schedule_),
                    status |-> observedOr(course, S_Status_, S_in_progress)],
          progress |->
              [completedAssignments |-> completed,
               totalAssignments |-> Len(assignments),
               completionRate |-> completionRate(completed, Len(assignments))],
          upcomingExam |-> upcomingExam(exams, now),
          summary |-> [assignmentCount |-> Len(assignments),
                       examCount |-> Len(exams)]] :
            assignments \in {sourcesOf(g, course.name, T_assigned_in, T_assignment, 1)},
            completed \in
                {Len(filter(sourcesOf(g, course.name, T_assigned_in, T_assignment, 1),
                            LAMBDA a : observed(a, S_Status_) = S_completed))},
            exams \in {sortByDate(targetsOf(g, course.name, T_scheduled_for, T_exam, 1),
                                  S_Date_)}} : TRUE

\* the entry of upcomingDeadlines for a deadline found for a course
termDeadline(found) ==
    [entity |-> found.entity,
     type |-> found.entity.entityType,
     course |-> found.course,
     date |-> found.dueDate,
     daysRemaining |-> found.daysRemaining]

\* getTermOverview(termName) called at the instant now: [ok, error, value]
getTermOverview(g, termName, now) ==
    IF findEntity(g, termName, T_term) = <<>>
    THEN [ok |-> FALSE, error |-> "Term not found", value |-> <<>>]
    ELSE [ok |-> TRUE, error |-> "",
          value |-> CHOOSE overview \in
              {[term |-> term[1],
                info |-> [startDate |-> observed(term[1], S_StartDate_),
                          endDate |-> observed(term[1], S_EndDate_),
                          status |-> observedOr(term[1], S_Status_, S_in_progress)],
                courses |-> [k \in 1..Len(courses) |-> courseEntry(g, courses[k], now)],
                upcomingDeadlines |->
                    shown([k \in 1..Len(deadlines) |-> termDeadline(deadlines[k])]),
                summary |-> [courseCount |-> Len(courses),
                             deadlineCount |-> Len(deadlines)]] :
                  term \in {findEntity(g, termName, T_term)},
                  courses \in {sourcesOf(g, termName, T_part_of, T_course, 1)},
                  deadlines \in
                      {sortByDueDate(allDeadlines(g, sourcesOf(g, termName, T_part_of,
                                                               T_course, 1),
                                                  now, Forever, 1), 0)}} : TRUE]

----------------------------------------------------------------------------
(* Session workflow: the loadcontext and startsession tools                *)
(*                                                                         *)
(* The text these tools format for the caller is not modelled: their       *)
(* result is whether they succeed, and the entity or the session id the    *)
(* text is about.                                                          *)

S_termQuery ==
    <<"e","n","t","i","t","y","T","y","p","e",":","t","e","r","m"," ",
      "s","t","a","t","u","s",":","a","c","t","i","v","e">>

\* the day window startsession asks of getUpcomingDeadlines
DefaultDaysAhead == 14

\* the record loadcontext appends to the session
loadEvent(entityName, entityType, date) ==
    [type |-> "context_loaded",
     timestamp |-> date,
     entityName |-> entityName,
     entityType |-> entityType]

\* the entity types whose context is built by a query that throws when no
\* entity of the name has the type
TypedContexts == {T_course, T_assignment, T_exam, T_concept, T_term}

\* the tracking that records the event only in a session it finds
trackContext_knownSessionsOnly(store, entityName, entityType, sessionId, date) ==
    IF sessionId # "" /\ sessionId \in DOMAIN store
    THEN [store EXCEPT ![sessionId] = Append(@, loadEvent(entityName, entityType, date))]
    ELSE store

\* the session part of loadcontext: a session id that is not found is
\* initialised, and the event is appended to the session; sessionId is ""
\* when the call carries none
trackContext(store, entityName, entityType, sessionId, date) ==
    LET created == IF sessionId \in DOMAIN store THEN store
                   ELSE store @@ (sessionId :> <<>>)
    IN IF sessionId # ""
       THEN [created EXCEPT ![sessionId] =
                Append(@, loadEvent(entityName, entityType, date))]
       ELSE store

\* the loadcontext handler: the session store and the result after the call
loadcontext(store, g, entityName, entityType, sessionId, date) ==
    LET store1 == trackContext(store, entityName, entityType, sessionId, date)
        entityGraph == searchNodes(g, entityName)
        k == findIndex(entityGraph.entities, LAMBDA e : e.name = entityName)
    IN IF Len(entityGraph.entities) = 0 \/ k = 0
       THEN [success |-> FALSE, error |-> "Entity not found",
             sessions |-> store1, entity |-> <<>>]
       ELSE IF entityType \in TypedContexts /\ findEntity(g, entityName, entityType) = <<>>
       THEN [success |-> FALSE, error |-> "not found",
             sessions |-> store1, entity |-> <<>>]
       ELSE [success |-> TRUE, error |-> "",
             sessions |-> store1, entity |-> <<entityGraph.entities[k]>>]

\* getCurrentTerm: the name of the first entity the term query finds, the
\* empty string (null) when it finds none
getCurrentTerm(g) ==
    LET termQuery == searchNodes(g, S_termQuery)
    IN IF Len(termQuery.entities) > 0 THEN termQuery.entities[1].name ELSE <<>>

\* the startsession handler, sessionId being the id it generates: the session
\* store and the result after the call
startsession(store, g, sessionId, now) ==
    LET store1 == IF sessionId \in DOMAIN store
                  THEN [store EXCEPT ![sessionId] = <<>>]
                  ELSE store @@ (sessionId :> <<>>)
        deadlines == getUpcomingDeadlines(g, getCurrentTerm(g), <<>>, DefaultDaysAhead, now)
    IN [success |-> deadlines.ok,
        error |-> deadlines.error,
        sessions |-> store1,
        sessionId |-> sessionId]

----------------------------------------------------------------------------
(* Bounds and inputs                                                       *)

\* the most items (entities, observations and relations together) a graph holds
MaxGraphSize == 5

N_A == <<"A">>
N_B == <<"B">>
O_x == <<"x">>
O_y == <<"y">>
T_widget == <<"w","i","d","g","e","t">>
T_likes == <<"l","i","k","e","s">>

Names == {N_A, N_B}

\* all sequences over S of length at most 2
UpTo2(S) == {<<>>} \cup {<<a>> : a \in S} \cup {<<a, b>> : a \in S, b \in S}

EntityInputs ==
    [name : Names, entityType : {T_concept, T_widget}, observations : {<<>>, <<O_x>>}]

RelationInputs ==
    [from : Names, to : Names, relationType : {T_related_to, T_likes}]

EntityLists == UpTo2(EntityInputs)
RelationLists == UpTo2(RelationInputs)
NameLists == UpTo2(Names)
ObservationLists == {<<>>, <<O_x>>, <<O_y>>, <<O_y, O_x>>}
DeletionLists ==
    UpTo2([entityName : Names, observations : {<<O_x>>, <<O_y, O_x>>}])

\* the most records one session holds
MaxRecords == 7

N_C == <<"C">>
O_nameA == <<"n","a","m","e",":","A">>
O_nameB == <<"n","a","m","e",":","B">>
O_statusOpen == <<"s","t","a","t","u","s",":","o","p","e","n">>
S_current == <<"c","u","r","r","e","n","t">>
D_20250110 == <<"2","0","2","5","-","0","1","-","1","0">>

EntityA == [name |-> N_A, entityType |-> T_course, observations |-> <<O_nameA>>]
EntityB == [name |-> N_B, entityType |-> T_assignment, observations |-> <<O_nameB>>]
RelationBA == [from |-> N_B, to |-> N_A, relationType |-> T_assigned_in]

\* the graph store inputs of the workflow specification
WorkflowEntityLists ==
    {<<EntityA>>, <<EntityB>>, <<[EntityB EXCEPT !.observations = <<>>]>>}
WorkflowRelationLists == {<<RelationBA>>}
WorkflowNameLists == {<<N_A>>, <<N_B>>}
WorkflowDeletionLists == {<<[entityName |-> N_B, observations |-> <<O_statusOpen>>]>>}

SessionIds == {"s1", "s9"}

\* the arguments of one endsession call
Params(sessionId, stage, stageData, nextStageNeeded, isRevision) ==
    [sessionId |-> sessionId, stage |-> stage, stageNumber |-> 1, totalStages |-> 6,
     analysis |-> "", stageData |-> stageData, nextStageNeeded |-> nextStageNeeded,
     isRevision |-> isRevision, revisesStage |-> IF isRevision THEN 1 ELSE 0]

SummaryData(course) == [summary |-> O_x, duration |-> <<>>, course |-> course]

\* the five stage calls of one session, in the order of the workflow
StageCalls(course, concepts, updates, newConcepts) ==
    <<Params("s1", "summary", <<SummaryData(course)>>, TRUE, FALSE),
      Params("s1", "conceptsLearned", <<[concepts |-> concepts]>>, TRUE, FALSE),
      Params("s1", "assignmentUpdates", <<[updates |-> updates]>>, TRUE, FALSE),
      Params("s1", "newConcepts", <<[concepts |-> newConcepts]>>, TRUE, FALSE),
      Params("s1", "courseStatus",
             <<[courseStatus |-> S_current, courseObservation |-> <<>>]>>, TRUE, FALSE)>>

\* the session store after startsession has created s1 and the first n calls
\* of the list have been handled
RECURSIVE StoreAfter(_, _)
StoreAfter(calls, n) ==
    IF n = 0 THEN ("s1" :> <<>>)
    ELSE endsession(StoreAfter(calls, n - 1), EmptyGraph, calls[n], D_20250110).sessions

PreparedStores ==
    {StoreAfter(StageCalls(N_A, concepts, updates, newConcepts), 5) :
        concepts \in {<<>>, <<O_x>>},
        updates \in {<<>>, <<[name |-> N_B, status |-> S_completed]>>},
        newConcepts \in {<<>>, <<[name |-> N_C, description |-> O_x]>>}}

WorkflowParams ==
    {Params(id, "assembly", <<>>, next, FALSE) : id \in SessionIds, next \in BOOLEAN}
    \cup {Params("s1", "summary", <<SummaryData(N_B)>>, TRUE, rev) : rev \in BOOLEAN}
    \cup {Params("s1", "review", <<>>, TRUE, FALSE)}

Dates == {D_20250110}

\* the inputs of the search specification
N_Ab == <<"A","b">>
N_c == <<"c">>
O_X == <<"X">>

SearchEntityLists ==
    UpTo2([name : {N_Ab, N_c}, entityType : {T_concept, T_note},
           observations : {<<>>, <<O_X>>}])

SearchRelationLists ==
    {<<r>> : r \in [from : {N_Ab, N_c}, to : {N_Ab, N_c}, relationType : {T_related_to}]}

Queries ==
    {<<>>,
     <<"A">>,
     <<"a","b"," ","x">>,
     <<"A","B"," ","\t","X">>,
     <<" ","c">>,
     <<"c","o","n","\n","b">>,
     <<"x"," ","n","o","t","e">>,
     <<"z">>}

\* the most relations a graph given to findRelatedConcepts holds
MaxEdges == 3
\* the largest depth asked of findRelatedConcepts
MaxDepth == 2

N_X == <<"X">>
N_Y == <<"Y">>
N_Z == <<"Z">>
N_W == <<"W">>

Concept(name) == [name |-> name, entityType |-> T_concept, observations |-> <<>>]
Course(name) == [name |-> name, entityType |-> T_course, observations |-> <<>>]

\* the entity lists of the graphs given to findRelatedConcepts: createEntities
\* stores each of them in one call
ConceptEntityLists ==
    {<<Concept(N_X), Concept(N_Y), Concept(N_Z)>>,
     <<Concept(N_X), Course(N_Y), Concept(N_Z)>>,
     <<Concept(N_X), Course(N_Y), Concept(N_Y), Concept(N_Z)>>,
     <<Concept(N_X), Concept(N_Y)>>,
     <<Concept(N_X), Concept(N_Y), Concept(N_Z), Concept(N_W)>>}

NodeSeq == <<N_X, N_Y, N_Z, N_W>>

\* the candidate relations, numbered: every pair of distinct nodes by
\* related_to and by prerequisite_for, then the two self-loops of X and one
\* covers relation
PairCount == Len(NodeSeq) * (Len(NodeSeq) - 1)
EdgeCount == 2 * PairCount + 3
EdgeAt(k) ==
    IF k = EdgeCount THEN [from |-> N_X, to |-> N_Z, relationType |-> T_covers]
    ELSE IF k > 2 * PairCount
    THEN [from |-> N_X, to |-> N_X,
          relationType |-> IF k % 2 = 1 THEN T_related_to ELSE T_prerequisite_for]
    ELSE LET pair == (k - 1) \div 2
             from == (pair \div (Len(NodeSeq) - 1)) + 1
             other == (pair % (Len(NodeSeq) - 1)) + 1
         IN [from |-> NodeSeq[from],
             to |-> NodeSeq[IF other < from THEN other ELSE other + 1],
             relationType |-> IF k % 2 = 1 THEN T_related_to ELSE T_prerequisite_for]

\* the sets of at most n candidate numbers
RECURSIVE EdgeSetsUpTo(_)
EdgeSetsUpTo(n) ==
    IF n = 0 THEN {{}}
    ELSE LET S == EdgeSetsUpTo(n - 1)
         IN S \cup {I \cup {k} : I \in S, k \in 1..EdgeCount}

\* the candidates of a set, in the order of their numbers
RECURSIVE EdgesOf(_)
EdgesOf(I) ==
    IF I = {} THEN <<>>
    ELSE LET k == CHOOSE m \in I : \A n \in I : m <= n
         IN <<EdgeAt(k)>> \o EdgesOf(I \ {k})

\* the relation lists createRelations accepts on the entity list
ConceptRelationLists(ents) ==
    {rels \in {EdgesOf(I) : I \in EdgeSetsUpTo(MaxEdges)} :
        \A i \in 1..Len(rels) :
            /\ \E k \in 1..Len(ents) : ents[k].name = rels[i].from
            /\ \E k \in 1..Len(ents) : ents[k].name = rels[i].to}

Depths == 0..MaxDepth

\* the most relations a graph given to getUpcomingDeadlines holds
MaxLinks == 3
\* the largest daysAhead asked of getUpcomingDeadlines
MaxDaysAhead == 2

N_T == <<"T">>
N_H == <<"H">>
N_G == <<"G">>
N_E == <<"E">>
N_Q == <<"Q">>
S_soon == <<"s","o","o","n">>

\* the midnight that starts the day of January
Midnight(day) == (day - 1) * DayLength
DueOn(day) == S_Due_ \o <<" ">> \o isoDate(Midnight(day))
DateOn(day) == S_Date_ \o <<" ">> \o isoDate(Midnight(day))

\* the instants of the calls: the midnight that starts January 10 and the
\* instant after it
Nows == {Midnight(10), Midnight(10) + 1}

DeadlineEntities(hObs, gObs, eObs) ==
    <<[name |-> N_T, entityType |-> T_term, observations |-> <<>>],
      Course(N_A),
      Course(N_B),
      [name |-> N_H, entityType |-> T_assignment, observations |-> hObs],
      [name |-> N_G, entityType |-> T_assignment, observations |-> gObs],
      [name |-> N_E, entityType |-> T_exam, observations |-> eObs]>>

\* the entity lists of the graphs given to getUpcomingDeadlines; the last one
\* holds a course named as the term is, which createEntities stores when both
\* are in one list
DeadlineEntityLists ==
    {DeadlineEntities(hObs, gObs, eObs) :
        hObs \in {<<>>, <<DueOn(10)>>, <<DueOn(12)>>, <<DueOn(9), DueOn(11)>>,
                  <<S_Due_ \o S_soon>>, <<DateOn(11)>>},
        gObs \in {<<DueOn(10)>>, <<DueOn(13)>>},
        eObs \in {<<DateOn(11)>>, <<DueOn(11), DateOn(12)>>}}
    \cup {DeadlineEntities(<<DueOn(10)>>, <<DueOn(11)>>, <<DateOn(11)>>)
          \o <<Course(N_T)>>}

Link(from, type, to) == [from |-> from, to |-> to, relationType |-> type]

\* the candidate relations, in the order they are stored in
LinkSeq ==
    <<Link(N_H, T_assigned_in, N_A),
      Link(N_G, T_assigned_in, N_A),
      Link(N_G, T_assigned_in, N_B),
      Link(N_A, T_scheduled_for, N_E),
      Link(N_E, T_assigned_in, N_A),
      Link(N_A, T_part_of, N_T),
      Link(N_B, T_part_of, N_T),
      Link(N_T, T_part_of, N_T),
      Link(N_H, T_assigned_in, N_T)>>

\* the sets of at most n candidate numbers
RECURSIVE LinkSetsUpTo(_)
LinkSetsUpTo(n) ==
    IF n = 0 THEN {{}}
    ELSE LET S == LinkSetsUpTo(n - 1)
         IN S \cup {I \cup {k} : I \in S, k \in 1..Len(LinkSeq)}

DeadlineRelationLists ==
    {FilterIdx(LinkSeq, I, 1) : I \in LinkSetsUpTo(MaxLinks)}

\* the most records the session store holds, all sessions together
MaxStoreRecords == 14

O_statusOld == <<"s","t","a","t","u","s",":","o","l","d">>
S_done == <<"d","o","n","e">>
D_20250111 == <<"2","0","2","5","-","0","1","-","1","1">>

\* the records of a session that has sent its five stages, naming course A:
\* each call stores the stage record that processStage makes of it
SessionRecords(concepts, updates, newConcepts, courseObservation) ==
    [k \in 1..5 |->
        analysisStage(processStage(
            IF k = 5
            THEN Params("s1", "courseStatus",
                        <<[courseStatus |-> S_current,
                           courseObservation |-> courseObservation]>>, TRUE, FALSE)
            ELSE StageCalls(N_A, concepts, updates, newConcepts)[k],
            <<>>, D_20250110).result)]

\* the sessions that are about to be assembled
OpenSessions ==
    {SessionRecords(<<>>, <<>>, <<>>, <<>>),
     SessionRecords(<<O_x>>, <<>>, <<>>, <<>>),
     SessionRecords(<<O_x, O_y>>, <<[name |-> N_B, status |-> S_completed]>>,
                    <<[name |-> N_C, description |-> O_x]>>, O_y),
     SessionRecords(<<>>, <<[name |-> N_B, status |-> S_done]>>, <<>>, <<>>),
     SessionRecords(<<>>, <<>>, <<[name |-> N_C, description |-> O_x]>>, <<>>)}

\* a course and its assignment, no observation holding "name:"
GraphPlain ==
    [entities |-> <<[name |-> N_A, entityType |-> T_course, observations |-> <<>>],
                    [name |-> N_B, entityType |-> T_assignment,
                     observations |-> <<O_statusOpen>>]>>,
     relations |-> <<RelationBA>>]

\* a course and its assignment, each with an observation "name:<its name>"
GraphNamed ==
    [entities |-> <<[name |-> N_A, entityType |-> T_course,
                     observations |-> <<O_nameA, O_statusOld>>],
                    [name |-> N_B, entityType |-> T_assignment,
                     observations |-> <<O_nameB, O_statusOpen>>]>>,
     relations |-> <<RelationBA>>]

\* a course and its assignment, and a note whose observation is "name:B"
GraphShadow ==
    [entities |-> <<[name |-> N_Z, entityType |-> T_note, observations |-> <<O_nameB>>],
                    [name |-> N_A, entityType |-> T_course, observations |-> <<>>],
                    [name |-> N_B, entityType |-> T_assignment,
                     observations |-> <<O_statusOpen>>]>>,
     relations |-> <<RelationBA>>]

\* the named course and its assignment, and a concept stored under the name C
GraphTaken ==
    [entities |-> GraphNamed.entities \o <<Concept(N_C)>>,
     relations |-> GraphNamed.relations]

\* the records of a session that reported nothing but its course, and of one
\* that reported the learned concept x
RecordsNone == SessionRecords(<<>>, <<>>, <<>>, <<>>)
RecordsX == SessionRecords(<<O_x>>, <<>>, <<>>, <<>>)

\* the stores after the earlier session s0, which sent the records, was
\* assembled on January 10 with the graph g stored
AfterEarlier(g, records) ==
    endsession("s0" :> records, g, Params("s0", "assembly", <<>>, FALSE, FALSE),
               D_20250110)

EarlierOnEmpty == AfterEarlier(EmptyGraph, RecordsNone)
EarlierOnPlain == AfterEarlier(GraphPlain, RecordsX)

\* the stores the session specification starts in: the earlier session s0 is
\* completed and s1 has sent its five stages
SessionInit(earlier, g, open) ==
    [graph |-> g, store |-> earlier.sessions @@ ("s1" :> open)]

\* the graphs and the records of s1 the specification starts with, no earlier
\* session having changed the graph
FreshStarts ==
    ({GraphPlain, GraphNamed} \X OpenSessions)
    \cup ({EmptyGraph} \X {RecordsNone, RecordsX})
    \cup ({GraphShadow} \X
             {SessionRecords(<<>>, <<[name |-> N_B, status |-> status]>>, <<>>, <<>>) :
                 status \in {S_done, S_completed}})
    \cup ({GraphTaken} \X
             {SessionRecords(concepts, <<[name |-> N_B, status |-> S_completed]>>,
                             <<[name |-> N_C, description |-> O_x]>>, <<>>) :
                 concepts \in {<<>>, <<O_x>>}})

SessionInits ==
    {SessionInit(earlier, start[1], start[2]) :
        earlier \in {EarlierOnEmpty}, start \in FreshStarts}
    \cup {SessionInit(earlier, earlier.graph, open) :
             earlier \in {EarlierOnPlain},
             open \in {RecordsX, SessionRecords(<<O_y, O_x>>, <<>>, <<>>, <<>>)}}

\* the endsession calls of the session specification, each with the day of
\* the call: s9 is never created
SessionCalls ==
    {<<Params("s1", "assembly", <<>>, FALSE, FALSE), date>> :
        date \in {D_20250110, D_20250111}}
    \cup {<<Params(id, "assembly", <<>>, next, FALSE), D_20250110>> :
             id \in {"s2", "s9"}, next \in BOOLEAN}
    \cup {<<Params("s1", "summary", <<SummaryData(N_B)>>, TRUE, rev), D_20250110>> :
             rev \in BOOLEAN}
    \cup {<<Params("s9", stage, <<>>, TRUE, FALSE), D_20250110>> :
             stage \in StageNames \cup {"review"}}
    \cup {<<Params("s1", "assembly", <<>>, TRUE, FALSE), D_20250110>>,
          <<Params("s1", "review", <<>>, TRUE, FALSE), D_20250110>>,
          <<Params("s1", "courseStatus", <<>>, FALSE, FALSE), D_20250110>>}

\* the loadcontext calls of the session specification: the entity name and
\* the session id, "" for none
ContextCalls == {<<N_A, "s2">>, <<N_Q, "s2">>, <<N_A, "s1">>, <<N_Q, "">>}

\* the observations of the entities from the i-th on, counted
RECURSIVE CountObservations(_, _)
CountObservations(ents, i) ==
    IF i > Len(ents) THEN 0
    ELSE Len(ents[i].observations) + CountObservations(ents, i + 1)

GraphSize(g) == Len(g.entities) + Len(g.relations) + CountObservations(g.entities, 1)

WithinBounds(g) == GraphSize(g) <= MaxGraphSize

\* the graphs given to getCourseOverview: course A of term T with three
\* lectures, three assignments and two exams, each dated or not
N_L == <<"L">>
N_M == <<"M">>
N_N == <<"N">>
N_F == <<"F">>
N_R == <<"R">>

DateChoices == {<<>>, <<DateOn(11)>>, <<DateOn(13)>>}
DueChoices == {<<>>, <<DueOn(11)>>, <<DueOn(13)>>}

OverviewEntityLists ==
    {<<[name |-> N_T, entityType |-> T_term, observations |-> <<>>],
       Course(N_A),
       [name |-> N_L, entityType |-> T_lecture, observations |-> lObs],
       [name |-> N_M, entityType |-> T_lecture, observations |-> mObs],
       [name |-> N_N, entityType |-> T_lecture, observations |-> nObs],
       [name |-> N_H, entityType |-> T_assignment, observations |-> hObs],
       [name |-> N_G, entityType |-> T_assignment, observations |-> gObs],
       [name |-> N_F, entityType |-> T_assignment, observations |-> fObs],
       [name |-> N_E, entityType |-> T_exam, observations |-> eObs],
       [name |-> N_R, entityType |-> T_exam, observations |-> rObs]>> :
        lObs \in DateChoices, mObs \in DateChoices, nObs \in DateChoices,
        hObs \in DueChoices, gObs \in DueChoices, fObs \in DueChoices,
        eObs \in {<<>>, <<DateOn(13)>>}, rObs \in {<<DateOn(11)>>, <<DateOn(13)>>}}

OverviewRelations ==
    <<Link(N_A, T_part_of, N_T),
      Link(N_L, T_part_of, N_A),
      Link(N_M, T_part_of, N_A),
      Link(N_N, T_part_of, N_A),
      Link(N_H, T_assigned_in, N_A),
      Link(N_G, T_assigned_in, N_A),
      Link(N_F, T_assigned_in, N_A),
      Link(N_A, T_scheduled_for, N_E),
      Link(N_A, T_scheduled_for, N_R)>>

\* the graphs the status queries read: term T, its course A with the
\* assignments B and G and the exam E, the concept C that B covers, a resource
\* and a note for C; the session s1 reports a status for B
O_StatusOpen == S_Status_ \o <<" ","o","p","e","n">>

StatusEntityLists ==
    {<<[name |-> N_T, entityType |-> T_term, observations |-> <<>>],
       [name |-> N_A, entityType |-> T_course, observations |-> aObs],
       [name |-> N_B, entityType |-> T_assignment, observations |-> bObs],
       [name |-> N_G, entityType |-> T_assignment, observations |-> <<O_StatusOpen>>],
       [name |-> N_E, entityType |-> T_exam, observations |-> <<DateOn(12)>>],
       Concept(N_C),
       [name |-> N_X, entityType |-> T_resource, observations |-> <<>>],
       [name |-> N_Z, entityType |-> T_note, observations |-> <<>>]>> :
        aObs \in {<<>>, <<O_nameA>>},
        bObs \in {<<>>, <<O_nameB>>, <<O_nameB, O_statusOpen>>,
                  <<O_nameB, O_StatusOpen>>, <<O_nameB, DueOn(12)>>}}

StatusRelations ==
    <<Link(N_A, T_part_of, N_T),
      Link(N_B, T_assigned_in, N_A),
      Link(N_G, T_assigned_in, N_A),
      Link(N_A, T_scheduled_for, N_E),
      Link(N_B, T_covers, N_C),
      Link(N_X, T_helps_with, N_C),
      Link(N_Z, T_created_for, N_B),
      Link(N_Z, T_references, N_C)>>

StatusSessions ==
    {"s1" :> SessionRecords(<<>>, <<[name |-> N_B, status |-> status]>>, <<>>, <<>>) :
        status \in {S_completed, S_done}}

----------------------------------------------------------------------------
(* The state machine: one call at a time, its result in ret until the      *)
(* caller has received it                                                  *)

NoCall == [op |-> "none"]

IdleBfs == [pc |-> "idle"]

Init ==
    /\ entities = <<>>
    /\ relations = <<>>
    /\ sessions = <<>>
    /\ ret = NoCall
    /\ bfs = IdleBfs
    /\ inflight = <<>>

\* a graph store call runs to its end: r is what the call computed
StoreCall(op, args, r) ==
    /\ ret = NoCall
    /\ WithinBounds(r.graph)
    /\ entities' = r.graph.entities
    /\ relations' = r.graph.relations
    /\ ret' = [op |-> op, args |-> args, ok |-> r.ok]
    /\ UNCHANGED <<sessions, bfs, inflight>>

CreateEntities(list) ==
    StoreCall("createEntities", list, createEntities(loadGraph, list))

CreateRelations(list) ==
    StoreCall("createRelations", list, createRelations(loadGraph, list))

AddObservations(entityName, observations) ==
    StoreCall("addObservations",
              [entityName |-> entityName, observations |-> observations],
              addObservations(loadGraph, entityName, observations))

DeleteEntities(entityNames) ==
    StoreCall("deleteEntities", entityNames, deleteEntities(loadGraph, entityNames))

DeleteObservations(deletions) ==
    StoreCall("deleteObservations", deletions, deleteObservations(loadGraph, deletions))

DeleteRelations(list) ==
    StoreCall("deleteRelations", list, deleteRelations(loadGraph, list))

\* the tool handler returns its result to the caller
Return ==
    /\ ret # NoCall
    /\ bfs.pc # "loop"
    /\ ret' = NoCall
    /\ bfs' = IdleBfs
    /\ UNCHANGED <<entities, relations, sessions, inflight>>

Next ==
    \/ \E list \in EntityLists : CreateEntities(list)
    \/ \E list \in RelationLists : CreateRelations(list)
    \/ \E n \in Names, obs \in ObservationLists : AddObservations(n, obs)
    \/ \E names \in NameLists : DeleteEntities(names)
    \/ \E deletions \in DeletionLists : DeleteObservations(deletions)
    \/ \E list \in RelationLists : DeleteRelations(list)
    \/ Return

Spec == Init /\ [][Next]_vars

\* every session of the store holds at most MaxRecords records
RecordsWithinBounds(store) == \A id \in DOMAIN store : Len(store[id]) <= MaxRecords

\* one call of the endsession tool, the clock showing the day `date`
EndSession(params, date) ==
    /\ ret = NoCall
    /\ LET r == endsession(sessions, loadGraph, params, date) IN
       /\ WithinBounds(r.graph)
       /\ RecordsWithinBounds(r.sessions)
       /\ sessions' = r.sessions
       /\ entities' = r.graph.entities
       /\ relations' = r.graph.relations
       /\ ret' = [op |-> "endsession", args |-> params, ok |-> r.success,
                  error |-> r.error]
    /\ UNCHANGED <<bfs, inflight>>

\* the stores when a session has sent its five stages: the graph is empty and
\* the session store holds s1 with the five stage records
WorkflowInit ==
    /\ entities = <<>>
    /\ relations = <<>>
    /\ sessions \in PreparedStores
    /\ ret = NoCall
    /\ bfs = IdleBfs
    /\ inflight = <<>>

WorkflowNext ==
    \/ \E list \in WorkflowEntityLists : CreateEntities(list)
    \/ \E list \in WorkflowRelationLists : CreateRelations(list)
    \/ AddObservations(N_B, <<O_statusOpen>>)
    \/ \E names \in WorkflowNameLists : DeleteEntities(names)
    \/ \E deletions \in WorkflowDeletionLists : DeleteObservations(deletions)
    \/ \E list \in WorkflowRelationLists : DeleteRelations(list)
    \/ \E params \in WorkflowParams, date \in Dates : EndSession(params, date)
    \/ Return

SpecWorkflow == WorkflowInit /\ [][WorkflowNext]_vars

\* a read-only call returns `value`
ReadCall(op, args, value) ==
    /\ ret = NoCall
    /\ ret' = [op |-> op, args |-> args, ok |-> TRUE, value |-> value]
    /\ UNCHANGED <<entities, relations, sessions, bfs, inflight>>

SearchNodes(query) == ReadCall("searchNodes", query, searchNodes(loadGraph, query))

SearchNext ==
    \/ \E list \in SearchEntityLists : CreateEntities(list)
    \/ \E list \in SearchRelationLists : CreateRelations(list)
    \/ \E query \in Queries : SearchNodes(query)
    \/ Return

SpecSearch == Init /\ [][SearchNext]_vars

\* findRelatedConcepts is called: it throws when the seed is no concept and
\* enters its loop otherwise
BfsStart(conceptName, depth) ==
    /\ ret = NoCall
    /\ bfs.pc = "idle"
    /\ IF findEntity(loadGraph, conceptName, T_concept) = <<>>
       THEN /\ bfs' = bfs
            /\ ret' = [op |-> "findRelatedConcepts",
                       args |-> [conceptName |-> conceptName, depth |-> depth],
                       ok |-> FALSE]
       ELSE /\ bfs' = bfsStart(conceptName, depth)
            /\ ret' = [op |-> "findRelatedConcepts",
                       args |-> [conceptName |-> conceptName, depth |-> depth],
                       ok |-> TRUE,
                       value |-> <<>>]
    /\ UNCHANGED <<entities, relations, sessions, inflight>>

\* one iteration of the loop
BfsStep ==
    /\ bfs.pc = "loop"
    /\ bfs.queue # <<>>
    /\ bfs' = bfsIteration(loadGraph, bfs)
    /\ UNCHANGED <<entities, relations, sessions, ret, inflight>>

\* the queue is empty: the results are sorted and returned
BfsFinish ==
    /\ bfs.pc = "loop"
    /\ bfs.queue = <<>>
    /\ LET sorted == sortByDepth(bfs.relatedConcepts, 0) IN
       /\ bfs' = [bfs EXCEPT !.pc = "done", !.relatedConcepts = sorted]
       /\ ret' = [ret EXCEPT !.value =
                     [concept |-> findEntity(loadGraph, bfs.conceptName, T_concept)[1],
                      relatedConcepts |-> sorted,
                      summary |-> [totalRelated |-> Len(sorted),
                                   maxDepth |-> bfs.depth]]]
    /\ UNCHANGED <<entities, relations, sessions, inflight>>

\* a graph the store can hold, nothing being called
BfsInit ==
    /\ entities \in ConceptEntityLists
    /\ relations \in ConceptRelationLists(entities)
    /\ sessions = <<>>
    /\ ret = NoCall
    /\ bfs = IdleBfs
    /\ inflight = <<>>

BfsNext ==
    \/ \E conceptName \in {N_X, N_Y}, depth \in Depths : BfsStart(conceptName, depth)
    \/ BfsStep
    \/ BfsFinish
    \/ Return

SpecBfs == BfsInit /\ [][BfsNext]_vars

\* one call of getUpcomingDeadlines, the clock showing the instant now
GetUpcomingDeadlines(termName, courseName, daysAhead, now) ==
    /\ ret = NoCall
    /\ LET r == getUpcomingDeadlines(loadGraph, termName, courseName, daysAhead, now) IN
       ret' = [op |-> "getUpcomingDeadlines",
               args |-> [termName |-> termName, courseName |-> courseName,
                         daysAhead |-> daysAhead, now |-> now],
               ok |-> r.ok,
               error |-> r.error,
               value |-> IF r.ok THEN r.value ELSE <<>>]
    /\ UNCHANGED <<entities, relations, sessions, bfs, inflight>>

\* a graph the store can hold, nothing being called
DeadlinesInit ==
    /\ entities \in DeadlineEntityLists
    /\ relations \in DeadlineRelationLists
    /\ sessions = <<>>
    /\ ret = NoCall
    /\ bfs = IdleBfs
    /\ inflight = <<>>

DeadlinesNext ==
    \/ \E termName \in {<<>>, N_T, N_Q}, courseName \in {<<>>, N_A, N_Q},
          daysAhead \in 0..MaxDaysAhead, now \in Nows :
          GetUpcomingDeadlines(termName, courseName, daysAhead, now)
    \/ Return

SpecDeadlines == DeadlinesInit /\ [][DeadlinesNext]_vars

\* the records of the store, counted
RECURSIVE CountRecords(_)
CountRecords(store) ==
    IF DOMAIN store = {} THEN 0
    ELSE LET id == CHOOSE x \in DOMAIN store : TRUE
         IN Len(store[id]) + CountRecords([x \in DOMAIN store \ {id} |-> store[x]])

StoreWithinBounds(store) == CountRecords(store) <= MaxStoreRecords

\* one call of the endsession tool in the session specification
EndSessionStage(params, date) ==
    /\ ret = NoCall
    /\ \E r \in {endsession(sessions, loadGraph, params, date)} :
       /\ StoreWithinBounds(r.sessions)
       /\ sessions' = r.sessions
       /\ entities' = r.graph.entities
       /\ relations' = r.graph.relations
       /\ ret' = [op |-> "endsession", args |-> params, date |-> date,
                  ok |-> r.success, error |-> r.error]
    /\ UNCHANGED <<bfs, inflight>>

\* one call of the loadcontext tool
LoadContext(entityName, entityType, sessionId, date) ==
    /\ ret = NoCall
    /\ \E r \in {loadcontext(sessions, loadGraph, entityName, entityType, sessionId, date)} :
       /\ StoreWithinBounds(r.sessions)
       /\ sessions' = r.sessions
       /\ ret' = [op |-> "loadcontext",
                  args |-> [entityName |-> entityName, entityType |-> entityType,
                            sessionId |-> sessionId],
                  ok |-> r.success, error |-> r.error, value |-> r.entity]
    /\ UNCHANGED <<entities, relations, bfs, inflight>>

\* one call of the startsession tool; the id it generates is new
StartSession(sessionId, now) ==
    /\ ret = NoCall
    /\ sessionId \notin DOMAIN sessions
    /\ \E r \in {startsession(sessions, loadGraph, sessionId, now)} :
       /\ sessions' = r.sessions
       /\ ret' = [op |-> "startsession", args |-> <<>>,
                  ok |-> r.success, error |-> r.error, value |-> r.sessionId]
    /\ UNCHANGED <<entities, relations, bfs, inflight>>

SessionsInit ==
    /\ \E init \in SessionInits :
          /\ entities = init.graph.entities
          /\ relations = init.graph.relations
          /\ sessions = init.store
    /\ ret = NoCall
    /\ bfs = IdleBfs
    /\ inflight = <<>>

SessionsNext ==
    \/ \E call \in SessionCalls : EndSessionStage(call[1], call[2])
    \/ \E call \in ContextCalls : LoadContext(call[1], T_course, call[2], D_20250110)
    \/ StartSession("s2", Midnight(10))
    \/ Return

SpecSessions == SessionsInit /\ [][SessionsNext]_vars

\* the callers whose createEntities calls overlap
Callers == {"p", "q"}

\* the lists the overlapping calls create
RaceLists == {<<Concept(N_A)>>, <<Concept(N_B)>>, <<Concept(N_C)>>}

\* createEntities has awaited loadGraph: the call holds its copy of the graph
RaceLoad(c, list) ==
    /\ inflight[c].pc = "idle"
    /\ inflight' = [inflight EXCEPT ![c] =
                       [pc |-> "loaded", args |-> list, graph |-> loadGraph]]
    /\ UNCHANGED <<entities, relations, sessions, ret, bfs>>

\* createEntities checks the list against its copy, adds the list to the copy
\* and saves the copy, or throws
RaceSave(c) ==
    /\ inflight[c].pc = "loaded"
    /\ \E r \in {createEntities(inflight[c].graph, inflight[c].args)} :
          /\ WithinBounds(r.graph)
          /\ \E written \in {IF r.ok THEN saveGraph(loadGraph, r.graph) ELSE loadGraph} :
                 /\ entities' = written.entities
                 /\ relations' = written.relations
          /\ inflight' = [inflight EXCEPT ![c] =
                             [pc |-> "done", args |-> inflight[c].args,
                              graph |-> inflight[c].graph, ok |-> r.ok]]
    /\ UNCHANGED <<sessions, ret, bfs>>

\* the caller has received the result of its call
RaceReturn(c) ==
    /\ inflight[c].pc = "done"
    /\ inflight' = [inflight EXCEPT ![c] = [pc |-> "idle"]]
    /\ UNCHANGED <<entities, relations, sessions, ret, bfs>>

RaceInit ==
    /\ entities = <<>>
    /\ relations = <<>>
    /\ sessions = <<>>
    /\ ret = NoCall
    /\ bfs = IdleBfs
    /\ inflight = [c \in Callers |-> [pc |-> "idle"]]

RaceNext ==
    \/ \E c \in Callers, list \in RaceLists : RaceLoad(c, list)
    \/ \E c \in Callers : RaceSave(c)
    \/ \E c \in Callers : RaceReturn(c)

SpecRace == RaceInit /\ [][RaceNext]_vars

\* getCourseOverview reads the graph and changes nothing
GetCourseOverview(courseName) ==
    /\ ret = NoCall
    /\ \E r \in {getCourseOverview(loadGraph, courseName)} :
          ret' = [op |-> "getCourseOverview",
                  args |-> [courseName |-> courseName],
                  ok |-> r.ok,
                  error |-> r.error,
                  value |-> r.value]
    /\ UNCHANGED <<entities, relations, sessions, bfs, inflight>>

OverviewInit ==
    /\ entities \in OverviewEntityLists
    /\ relations = OverviewRelations
    /\ sessions = <<>>
    /\ ret = NoCall
    /\ bfs = IdleBfs
    /\ inflight = <<>>

OverviewNext ==
    \/ \E courseName \in {N_A, N_Q} : GetCourseOverview(courseName)
    \/ Return

SpecOverview == OverviewInit /\ [][OverviewNext]_vars

\* getAssignmentStatus reads the graph and changes nothing
GetAssignmentStatus(assignmentName, now) ==
    /\ ret = NoCall
    /\ \E r \in {getAssignmentStatus(loadGraph, assignmentName, now)} :
          ret' = [op |-> "getAssignmentStatus",
                  args |-> [assignmentName |-> assignmentName, now |-> now],
                  ok |-> r.ok,
                  error |-> r.error,
                  value |-> r.value]
    /\ UNCHANGED <<entities, relations, sessions, bfs, inflight>>

\* getTermOverview reads the graph and changes nothing
GetTermOverview(termName, now) ==
    /\ ret = NoCall
    /\ \E r \in {getTermOverview(loadGraph, termName, now)} :
          ret' = [op |-> "getTermOverview",
                  args |-> [termName |-> termName, now |-> now],
                  ok |-> r.ok,
                  error |-> r.error,
                  value |-> r.value]
    /\ UNCHANGED <<entities, relations, sessions, bfs, inflight>>

\* the endsession calls of the status specification: the final assembly of
\* s1 and of a session that does not exist
StatusCalls == {Params(id, "assembly", <<>>, FALSE, FALSE) : id \in {"s1", "s9"}}

StatusInit ==
    /\ entities \in StatusEntityLists
    /\ relations = StatusRelations
    /\ sessions \in StatusSessions
    /\ ret = NoCall
    /\ bfs = IdleBfs
    /\ inflight = <<>>

StatusNext ==
    \/ \E params \in StatusCalls : EndSessionStage(params, D_20250110)
    \/ \E assignmentName \in {N_B, N_G, N_Q}, now \in Nows :
          GetAssignmentStatus(assignmentName, now)
    \/ \E termName \in {N_T, N_Q}, now \in Nows : GetTermOverview(termName, now)
    \/ Return

SpecStatus == StatusInit /\ [][StatusNext]_vars

----------------------------------------------------------------------------
(* Properties of the graph store                                           *)

storedNames == {entities[i].name : i \in 1..Len(entities)}

Triple(r) == <<r.from, r.to, r.relationType>>

\* the elements of a list, as a set
Members(list) == {list[i] : i \in 1..Len(list)}

\* C1: after any sequence of completed graph store calls from the empty
\* store, no two stored entities have the same name.
C1_UniqueNames ==
    \A i \in 1..Len(entities), j \in 1..Len(entities) :
        i # j => entities[i].name # entities[j].name

\* C2: after any sequence of completed graph store calls from the empty
\* store, no two stored relations have the same (from, to, relationType).
C2_UniqueTriples ==
    \A i \in 1..Len(relations), j \in 1..Len(relations) :
        i # j => Triple(relations[i]) # Triple(relations[j])

\* C3: after any sequence of completed graph store calls and end-session
\* assemblies from the empty store, the from and the to of every stored
\* relation are names of stored entities.
C3_EndpointsExist ==
    \A i \in 1..Len(relations) :
        relations[i].from \in storedNames /\ relations[i].to \in storedNames

\* C3 witness: a final assembly has recorded the session and the store holds
\* the relation of a concept it created.
C3_Witness ==
    /\ ret.op = "endsession"
    /\ ret.ok
    /\ ret.args.stage = "assembly"
    /\ ~ret.args.nextStageNeeded
    /\ \E i \in 1..Len(relations) : relations[i].relationType = T_contains

\* the list is rejected by the rule of the claim C4
EntityListRejected(list) ==
    \/ \E i \in 1..Len(list) : list[i].name \in storedNames
    \/ \E i \in 1..Len(list) : list[i].entityType \notin validEntityTypes

\* C4: createEntities(list) fails and leaves the stored graph unchanged when a
\* name of the list is already stored or a type of the list is outside the
\* twelve-member enumeration; otherwise it succeeds, every entity of the list
\* is stored afterwards and everything stored before is kept.
C4_CreateEntitiesContract ==
    [][ret'.op = "createEntities" =>
          /\ Cardinality(validEntityTypes) = 12
          /\ IF EntityListRejected(ret'.args)
             THEN ~ret'.ok /\ entities' = entities /\ relations' = relations
             ELSE /\ ret'.ok
                  /\ Members(ret'.args) \subseteq Members(entities')
                  /\ SubSeq(entities', 1, Len(entities)) = entities
                  /\ Members(entities') = Members(entities) \cup Members(ret'.args)
                  /\ relations' = relations]_vars

\* C4 witness: a list holding a stored name or an invalid type was rejected
\* while the store held entities.
C4_Witness ==
    /\ ret.op = "createEntities"
    /\ ~ret.ok
    /\ Len(ret.args) = 2
    /\ Len(entities) > 0

\* the list is rejected by the rule of the claim C5
RelationListRejected(list) ==
    \E i \in 1..Len(list) :
        \/ list[i].from \notin storedNames
        \/ list[i].to \notin storedNames
        \/ list[i].relationType \notin VALID_RELATION_TYPES
        \/ \E k \in 1..Len(relations) : Triple(relations[k]) = Triple(list[i])

\* C5: createRelations(list) fails and leaves the stored graph unchanged when
\* a relation of the list has an endpoint that is no stored entity name, a
\* type outside the twenty-member enumeration or a triple already stored;
\* otherwise it succeeds and every relation of the list is stored afterwards.
C5_CreateRelationsContract ==
    [][ret'.op = "createRelations" =>
          /\ Cardinality(VALID_RELATION_TYPES) = 20
          /\ IF RelationListRejected(ret'.args)
             THEN ~ret'.ok /\ entities' = entities /\ relations' = relations
             ELSE /\ ret'.ok
                  /\ Members(ret'.args) \subseteq Members(relations')
                  /\ SubSeq(relations', 1, Len(relations)) = relations
                  /\ entities' = entities]_vars

\* C5 witness: a relation whose triple is already stored was rejected.
C5_Witness ==
    /\ ret.op = "createRelations"
    /\ ~ret.ok
    /\ \E i \in 1..Len(ret.args), k \in 1..Len(relations) :
           Triple(ret.args[i]) = Triple(relations[k])

\* C6: after deleteEntities(N) no stored entity is named in N and no stored
\* relation has its from or to in N; the entities not named in N and the
\* relations touching no name of N are kept as they were; absent names cause
\* no error.
C6_DeleteEntitiesCascade ==
    [][ret'.op = "deleteEntities" =>
          LET N == Members(ret'.args) IN
          /\ ret'.ok
          /\ \A i \in 1..Len(entities') : entities'[i].name \notin N
          /\ \A i \in 1..Len(relations') :
                 relations'[i].from \notin N /\ relations'[i].to \notin N
          /\ entities' = SelectSeq(entities, LAMBDA e : e.name \notin N)
          /\ relations' = SelectSeq(relations,
                                    LAMBDA r : r.from \notin N /\ r.to \notin N)]_vars

\* C6 witness: a deletion naming a stored and an absent entity has run, and
\* an entity with a relation is kept.
C6_Witness ==
    /\ ret.op = "deleteEntities"
    /\ Len(ret.args) = 2
    /\ Len(entities) = 1
    /\ Len(relations) > 0

\* C7: addObservations(name, texts) fails and changes nothing when no entity
\* is named `name`; otherwise the entity's observations become its previous
\* list followed by texts in order, texts already present added again, and
\* every other entity and every relation is unchanged.
C7_AddObservationsContract ==
    [][ret'.op = "addObservations" =>
          LET n == ret'.args.entityName
              texts == ret'.args.observations
          IN IF n \notin storedNames
             THEN ~ret'.ok /\ entities' = entities /\ relations' = relations
             ELSE /\ ret'.ok
                  /\ relations' = relations
                  /\ Len(entities') = Len(entities)
                  /\ \E i \in 1..Len(entities) :
                        /\ entities[i].name = n
                        /\ entities'[i] =
                              [name |-> n,
                               entityType |-> entities[i].entityType,
                               observations |-> entities[i].observations \o texts]
                        /\ \A j \in 1..Len(entities) :
                              j # i => entities'[j] = entities[j]]_vars

\* C7 witness: an observation already present was added again.
C7_Witness ==
    /\ ret.op = "addObservations"
    /\ ret.ok
    /\ ret.args.observations = <<O_x>>
    /\ \E i \in 1..Len(entities) : entities[i].observations = <<O_x, O_x>>

----------------------------------------------------------------------------
(* Properties of searchNodes                                               *)

\* the whitespace-separated terms of a text: its maximal runs of characters
\* that are not whitespace
TermsOf(text) ==
    {SubSeq(text, p[1], p[2]) :
        p \in {q \in (1..Len(text)) \X (1..Len(text)) :
                  /\ q[1] <= q[2]
                  /\ \A m \in q[1]..q[2] : text[m] \notin Whitespace
                  /\ (q[1] = 1 \/ text[q[1] - 1] \in Whitespace)
                  /\ (q[2] = Len(text) \/ text[q[2] + 1] \in Whitespace)}}

\* t is a substring of s
IsSubstring(t, s) ==
    \/ t = <<>>
    \/ \E i \in 1..Len(s), j \in 1..Len(s) : SubSeq(s, i, j) = t

\* every lower-cased term of the query is found in the entity's lower-cased
\* name, in its type or in one of its lower-cased observations
MatchesQuery(e, query) ==
    \A t \in TermsOf(toLowerCase(query)) :
        \/ IsSubstring(t, toLowerCase(e.name))
        \/ IsSubstring(t, e.entityType)
        \/ \E k \in 1..Len(e.observations) :
               IsSubstring(t, toLowerCase(e.observations[k]))

\* the relations the claim C8 expects with the returned entities
RelationsAmong(ents) ==
    SelectSeq(relations,
              LAMBDA r : /\ \E i \in 1..Len(ents) : ents[i].name = r.from
                         /\ \E i \in 1..Len(ents) : ents[i].name = r.to)

\* C8: searchNodes(query) returns exactly the entities for which every
\* whitespace-separated, lower-cased term of the query is a substring of the
\* lower-cased name, of the type or of a lower-cased observation, and exactly
\* the stored relations whose both endpoints are among the returned entities.
C8_SearchExact ==
    ret.op = "searchNodes" =>
        /\ ret.value.entities = SelectSeq(entities, LAMBDA e : MatchesQuery(e, ret.args))
        /\ ret.value.relations = RelationsAmong(ret.value.entities)

\* the same statement for the stores whose entity names are unique (the
\* stores the claim C1 expects)
C8_SearchExactOnUniqueNames ==
    (ret.op = "searchNodes" /\ C1_UniqueNames) =>
        /\ ret.value.entities = SelectSeq(entities, LAMBDA e : MatchesQuery(e, ret.args))
        /\ ret.value.relations = RelationsAmong(ret.value.entities)

----------------------------------------------------------------------------
(* Properties of findRelatedConcepts                                       *)

\* the names of the concept entities of the store
conceptNames ==
    {entities[i].name : i \in {k \in 1..Len(entities) : entities[k].entityType = T_concept}}

\* a related_to or prerequisite_for relation joins m and n, in either direction
Adjacent(m, n) ==
    \E i \in 1..Len(relations) :
        /\ relations[i].relationType \in {T_related_to, T_prerequisite_for}
        /\ \/ relations[i].from = m /\ relations[i].to = n
           \/ relations[i].from = n /\ relations[i].to = m

\* the concepts joined to the seed by a path of at most k such relations
\* through concepts
RECURSIVE ConceptsWithin(_, _)
ConceptsWithin(seed, k) ==
    IF k = 0 THEN {seed}
    ELSE LET P == ConceptsWithin(seed, k - 1)
         IN P \cup {n \in conceptNames : \E m \in P : Adjacent(m, n)}

\* findRelatedConcepts has returned its result
BfsReturned == bfs.pc = "done" /\ ret.op = "findRelatedConcepts" /\ ret.ok

\* the names of the results, in their order
resultNames ==
    [i \in 1..Len(ret.value.relatedConcepts) |-> ret.value.relatedConcepts[i].concept.name]

\* C9: for a depth d >= 1, findRelatedConcepts(seed, d) returns every concept
\* other than the seed joined to the seed by a path of at most d related_to or
\* prerequisite_for relations (either direction) through concepts, returns no
\* concept with a depth above d, and lists the results in non-decreasing depth.
C9_RelatedConceptsWithinDepth ==
    (BfsReturned /\ ret.args.depth >= 1) =>
        LET R == ret.value.relatedConcepts IN
        /\ ConceptsWithin(ret.args.conceptName, ret.args.depth) \ {ret.args.conceptName}
              \subseteq Members(resultNames)
        /\ \A i \in 1..Len(R) : R[i].depth <= ret.args.depth
        /\ \A i \in 1..Len(R), j \in 1..Len(R) : i < j => R[i].depth <= R[j].depth

\* C9 witness: a search of depth 2 has returned a concept at depth 1 and
\* another at depth 2, and has left out a concept three relations away.
C9_Witness ==
    /\ BfsReturned
    /\ ret.args.depth = 2
    /\ Len(ret.value.relatedConcepts) = 2
    /\ ret.value.relatedConcepts[1].depth = 1
    /\ ret.value.relatedConcepts[2].depth = 2
    /\ \E n \in conceptNames :
           /\ n \in ConceptsWithin(ret.args.conceptName, 3)
           /\ n \notin ConceptsWithin(ret.args.conceptName, 2)

\* the names the loop can ever meet
allNames ==
    Members([i \in 1..Len(entities) |-> entities[i].name])
    \cup Members([i \in 1..Len(relations) |-> relations[i].from])
    \cup Members([i \in 1..Len(relations) |-> relations[i].to])

\* a number that bounds the iterations the loop still makes
Variant(b) == 2 * Cardinality(allNames \ b.processedConcepts) + Len(b.queue)

\* C10: findRelatedConcepts terminates on every finite graph, cycles and
\* self-loops included: every iteration of its loop lowers a non-negative
\* number, and the loop ends when its queue is empty; its result lists a
\* concept at most once and never the seed.
C10_TerminatesListingOnce ==
    [][/\ (bfs.pc = "loop" /\ bfs'.pc = "loop") =>
              /\ Variant(bfs') < Variant(bfs)
              /\ Variant(bfs') >= 0
       /\ (bfs.pc = "loop" /\ bfs.queue = <<>>) => bfs'.pc = "done"
       /\ (bfs.pc = "loop" /\ bfs'.pc = "done") =>
              LET names == [i \in 1..Len(ret'.value.relatedConcepts) |->
                               ret'.value.relatedConcepts[i].concept.name]
              IN /\ \A i \in 1..Len(names), j \in 1..Len(names) :
                        i # j => names[i] # names[j]
                 /\ \A i \in 1..Len(names) : names[i] # ret'.args.conceptName]_vars

\* C10 witness: a search has returned on a graph holding a self-loop on the
\* seed and a relation in each direction between two concepts.
C10_Witness ==
    /\ BfsReturned
    /\ Len(ret.value.relatedConcepts) > 0
    /\ \E i \in 1..Len(relations) :
           relations[i].from = ret.args.conceptName /\ relations[i].to = ret.args.conceptName
    /\ \E i \in 1..Len(relations), j \in 1..Len(relations) :
           /\ relations[i].from # relations[i].to
           /\ relations[i].from = relations[j].to
           /\ relations[i].to = relations[j].from

\* C28: for every concept findRelatedConcepts returns, the depth reported is
\* the length of the shortest path from the seed over related_to and
\* prerequisite_for relations (either direction) through concept entities,
\* and its relationPath has exactly that many entries.
C28_DepthIsShortestPath ==
    BfsReturned =>
        \A i \in 1..Len(ret.value.relatedConcepts) :
            LET r == ret.value.relatedConcepts[i] IN
            /\ r.depth >= 1
            /\ r.concept.name \in ConceptsWithin(ret.args.conceptName, r.depth)
            /\ r.concept.name \notin ConceptsWithin(ret.args.conceptName, r.depth - 1)
            /\ Len(r.relationPath) = r.depth

\* C28 witness: a search of depth 2 has returned at depth 1, with a path of
\* one entry, a concept that a path of two relations through another
\* concept reaches as well.
C28_Witness ==
    /\ BfsReturned
    /\ ret.args.depth = 2
    /\ \E i \in 1..Len(ret.value.relatedConcepts) :
           /\ ret.value.relatedConcepts[i].depth = 1
           /\ Len(ret.value.relatedConcepts[i].relationPath) = 1
           /\ \E m \in conceptNames \ {ret.args.conceptName,
                                        ret.value.relatedConcepts[i].concept.name} :
                  /\ Adjacent(ret.args.conceptName, m)
                  /\ Adjacent(m, ret.value.relatedConcepts[i].concept.name)

----------------------------------------------------------------------------
(* Properties of getUpcomingDeadlines                                      *)

\* getUpcomingDeadlines has returned its result
DeadlinesReturned == ret.op = "getUpcomingDeadlines" /\ ret.ok

\* the entities the result lists
returnedEntities ==
    {ret.value.deadlines[k].entity : k \in 1..Len(ret.value.deadlines)}

\* the result is in ascending date order
AscendingDates ==
    \A k \in 1..Len(ret.value.deadlines), l \in 1..Len(ret.value.deadlines) :
        k < l => ret.value.deadlines[k].dueDate <= ret.value.deadlines[l].dueDate

\* the date the observation gives lies in the window of the call
InWindow(o) ==
    LET d == parseDate(trim(secondPart(o)))
    IN /\ d # NaN
       /\ ret.args.now <= d
       /\ d <= ret.args.now + ret.args.daysAhead * DayLength

\* the entity is an assignment linked by assigned_in to one of the courses, or
\* an exam linked by scheduled_for from one of them
LinkedTo(e, courseNames) ==
    \/ /\ e.entityType = T_assignment
       /\ \E i \in 1..Len(relations) :
              /\ relations[i].relationType = T_assigned_in
              /\ relations[i].from = e.name
              /\ relations[i].to \in courseNames
    \/ /\ e.entityType = T_exam
       /\ \E i \in 1..Len(relations) :
              /\ relations[i].relationType = T_scheduled_for
              /\ relations[i].to = e.name
              /\ relations[i].from \in courseNames

\* the label of the observation that dates the entity
dateLabel(e) == IF e.entityType = T_assignment THEN S_Due_ ELSE S_Date_

\* some observation of the entity with its label gives a date in the window
SomeDateInWindow(e) ==
    \E k \in 1..Len(e.observations) :
        startsWith(e.observations[k], dateLabel(e)) /\ InWindow(e.observations[k])

\* the first observation of the entity with its label gives a date in the
\* window
FirstDateInWindow(e) ==
    \E k \in 1..Len(e.observations) :
        /\ startsWith(e.observations[k], dateLabel(e))
        /\ \A j \in 1..(k - 1) : ~startsWith(e.observations[j], dateLabel(e))
        /\ InWindow(e.observations[k])

\* the names of the courses a call without a term filter considers
coursesWithoutTerm ==
    {entities[i].name : i \in {k \in 1..Len(entities) :
        /\ entities[k].entityType = T_course
        /\ ret.args.courseName \in {<<>>, entities[k].name}}}

\* C11 as stated: with no term filter, getUpcomingDeadlines returns exactly
\* the assignments linked by assigned_in to a relevant course and the exams
\* linked by scheduled_for from a relevant course that carry a Due:/Date:
\* observation whose date d satisfies now <= d <= now + daysAhead, in
\* ascending date order.
C11_DeadlinesAnyObservation ==
    (DeadlinesReturned /\ ret.args.termName = <<>>) =>
        /\ returnedEntities =
              {e \in Members(entities) : LinkedTo(e, coursesWithoutTerm) /\ SomeDateInWindow(e)}
        /\ AscendingDates

\* C11 amended: with no term filter, getUpcomingDeadlines returns exactly the
\* assignments linked by assigned_in to a relevant course and the exams
\* linked by scheduled_for from a relevant course whose FIRST Due:/Date:
\* observation gives a date d with now <= d <= now + daysAhead (both bounds
\* inclusive), in ascending date order.
C11_DeadlinesFirstObservation ==
    (DeadlinesReturned /\ ret.args.termName = <<>>) =>
        /\ returnedEntities =
              {e \in Members(entities) : LinkedTo(e, coursesWithoutTerm) /\ FirstDateInWindow(e)}
        /\ AscendingDates

\* C11 witness: a call without a term filter has returned an assignment due at
\* the instant of the call, then an exam, then an assignment due on the last
\* day of the window, stored in another order.
C11_Witness ==
    /\ DeadlinesReturned
    /\ ret.args.termName = <<>>
    /\ Len(ret.value.deadlines) = 3
    /\ ret.value.deadlines[1].dueDate = ret.args.now
    /\ ret.value.deadlines[2].entity.entityType = T_exam
    /\ ret.value.deadlines[3].dueDate = ret.args.now + ret.args.daysAhead * DayLength
    /\ ret.value.deadlines[3].entity.name = N_H

\* the names of the course entities linked to the term of the call by part_of
coursesOfTerm ==
    {entities[i].name : i \in {k \in 1..Len(entities) :
        /\ entities[k].entityType = T_course
        /\ \E j \in 1..Len(relations) :
               /\ relations[j].relationType = T_part_of
               /\ relations[j].from = entities[k].name
               /\ relations[j].to = ret.args.termName}}

\* C12: given the name of an existing term, getUpcomingDeadlines considers
\* exactly the course entities linked to the term by part_of, so an
\* assignment or exam of such a course dated inside the window is in the
\* result, and a course filter naming one of those courses does not fail.
C12_TermCourses ==
    (/\ ret.op = "getUpcomingDeadlines"
     /\ \E i \in 1..Len(entities) :
            entities[i].name = ret.args.termName /\ entities[i].entityType = T_term) =>
        /\ ret.args.courseName \in coursesOfTerm => ret.ok
        /\ ret.ok =>
              returnedEntities =
                 {e \in Members(entities) :
                     /\ LinkedTo(e, {c \in coursesOfTerm : ret.args.courseName \in {<<>>, c}})
                     /\ FirstDateInWindow(e)}

----------------------------------------------------------------------------
(* Properties of the session workflow                                      *)

\* the step is a call of the tool
Calls(op) == ret = NoCall /\ ret'.op = op

\* C13: an endsession call, whatever its stage, whose session id is not in the
\* session store returns a session-not-found failure and leaves the stored
\* graph and the session store unchanged.
C13_UnknownSessionRejected ==
    [][(Calls("endsession") /\ ret'.args.sessionId \notin DOMAIN sessions) =>
           /\ ~ret'.ok
           /\ ret'.error = "Session not found"
           /\ UNCHANGED <<entities, relations, sessions>>]_vars

\* C13 witness: an assembly stage sent for an id the store does not hold has
\* been rejected, the graph holding entities.
C13_Witness ==
    /\ ret.op = "endsession"
    /\ ret.args.stage = "assembly"
    /\ ~ret.args.nextStageNeeded
    /\ ret.args.sessionId \notin DOMAIN sessions
    /\ ret.error = "Session not found"
    /\ Len(entities) > 0

\* C14: a loadcontext call carrying a session id that is not in the session
\* store creates the session with one context_loaded event, whether or not
\* the entity is found; and an endsession call for an id the store holds is
\* never rejected as session-not-found.
C14_LoadContextCreatesSession ==
    [][/\ (/\ Calls("loadcontext")
           /\ ret'.args.sessionId # ""
           /\ ret'.args.sessionId \notin DOMAIN sessions) =>
              /\ DOMAIN sessions' = DOMAIN sessions \cup {ret'.args.sessionId}
              /\ \A id \in DOMAIN sessions : sessions'[id] = sessions[id]
              /\ Len(sessions'[ret'.args.sessionId]) = 1
              /\ sessions'[ret'.args.sessionId][1].type = "context_loaded"
              /\ sessions'[ret'.args.sessionId][1].entityName = ret'.args.entityName
       /\ (Calls("endsession") /\ ret'.args.sessionId \in DOMAIN sessions) =>
              ret'.error # "Session not found"]_vars

\* C14 witness: loadcontext has created the session s2 although it did not
\* find the entity, and a later endsession stage for s2 has been accepted.
C14_Witness ==
    /\ ret.op = "endsession"
    /\ ret.ok
    /\ ret.args.sessionId = "s2"
    /\ Len(sessions["s2"]) >= 2
    /\ sessions["s2"][1].type = "context_loaded"
    /\ sessions["s2"][1].entityName = N_Q
    /\ sessions["s2"][2].type = "analysis_stage"

\* the step is an endsession call that assembles the session for good
FinalAssembly ==
    /\ Calls("endsession")
    /\ ret'.args.stage = "assembly"
    /\ ~ret'.args.nextStageNeeded
    /\ ret'.args.sessionId \in DOMAIN sessions

\* what the session of the call has reported, the call being a final assembly
reported == assembleEndSessionArgs(sessions[ret'.args.sessionId], ret'.date)

\* the session of the call has sent summary, conceptsLearned,
\* assignmentUpdates, newConcepts and courseStatus, in this order, and
\* nothing else
SentFiveStages ==
    LET records == sessions[ret'.args.sessionId]
    IN /\ Len(records) = 5
       /\ \A k \in 1..5 : records[k].type = "analysis_stage"
       /\ <<records[1].stage, records[2].stage, records[3].stage, records[4].stage,
            records[5].stage>>
          = <<"summary", "conceptsLearned", "assignmentUpdates", "newConcepts",
              "courseStatus">>

\* an entity of the name and the type is stored before the call
StoredBefore(name, type) ==
    \E k \in 1..Len(entities) : entities[k].name = name /\ entities[k].entityType = type

\* the concept entities the call has added that hold the text and are the
\* target of a contains relation from the course
newConceptsFor(text, course) ==
    {k \in 1..Len(entities') :
        /\ entities'[k].entityType = T_concept
        /\ entities'[k] \notin Members(entities)
        /\ arrayIncludes(entities'[k].observations, text)
        /\ \E j \in 1..Len(relations') :
               /\ relations'[j].relationType = T_contains
               /\ relations'[j].from = course
               /\ relations'[j].to = entities'[k].name}

\* C15: in every reachable state of the stores, a session that has sent its
\* five stages and then sends the final assembly, naming an existing course
\* and n learned-concept strings, ends with n new concept entities in the
\* graph, one per string, each the target of a stored contains relation from
\* the course.
C15_LearnedConceptsCreated ==
    [][(FinalAssembly /\ SentFiveStages /\ StoredBefore(reported.course, T_course)) =>
           LET texts == reported.conceptsLearned IN
           /\ \A i \in 1..Len(texts) : newConceptsFor(texts[i], reported.course) # {}
           /\ Cardinality(UNION {newConceptsFor(texts[i], reported.course) :
                                    i \in 1..Len(texts)}) >= Len(texts)]_vars

\* the observations of the list that start with the label
labelled(observations, label) == filter(observations, LAMBDA o : startsWith(o, label))

\* the observations of the list that do not start with the label
unlabelled(observations, label) == filter(observations, LAMBDA o : ~startsWith(o, label))

\* C16: after a successful assembly whose assignment updates contain
\* {name, status} for an assignment entity stored under exactly that name,
\* the entity's observations hold status:<status> and no other status:
\* observation, and its other observations are those it had before.
C16_AssignmentStatusReplaced ==
    [][(FinalAssembly /\ ret'.ok) =>
           \A i \in 1..Len(reported.assignmentUpdates) :
               \A k \in 1..Len(entities) :
                   (/\ entities[k].name = reported.assignmentUpdates[i].name
                    /\ entities[k].entityType = T_assignment) =>
                       \E j \in 1..Len(entities') :
                           /\ entities'[j].name = entities[k].name
                           /\ entities'[j].entityType = T_assignment
                           /\ labelled(entities'[j].observations, S_status_)
                              = <<S_status_ \o reported.assignmentUpdates[i].status>>
                           /\ unlabelled(entities'[j].observations, S_status_)
                              = unlabelled(entities[k].observations, S_status_)]_vars

\* C17: after a successful assembly of a session whose summary names an
\* existing course entity, the course's observations hold exactly one status:
\* observation, carrying the reported course status, and exactly one updated:
\* observation, carrying the session date, followed by the course observation
\* text when one was reported.
C17_CourseStatusReplaced ==
    [][(FinalAssembly /\ ret'.ok /\ StoredBefore(reported.course, T_course)) =>
           \E j \in 1..Len(entities') :
               /\ entities'[j].name = reported.course
               /\ entities'[j].entityType = T_course
               /\ labelled(entities'[j].observations, S_status_)
                  = <<S_status_ \o reported.courseStatus>>
               /\ labelled(entities'[j].observations, S_updated_)
                  = <<S_updated_ \o reported.date>>
               /\ reported.courseObservation # <<>> =>
                     entities'[j].observations[Len(entities'[j].observations)]
                     = reported.courseObservation]_vars

\* the session_completed markers in the session's record, none when the store
\* does not hold the session
markers(store, id) ==
    IF id \in DOMAIN store
    THEN Len(filter(store[id], LAMBDA r : r.type = "session_completed"))
    ELSE 0

\* the graph steps of the call, a final assembly, all succeed on the stored graph
StepsSucceed == recordSession(loadGraph, reported).ok

\* C18: a session's record gains a session_completed marker exactly when an
\* endsession call with stage assembly and nextStageNeeded = false performs
\* all its graph steps without error: such a call appends exactly one marker
\* to its session, an assembly whose graph steps fail appends none, and no
\* other call appends one.
C18_MarkerOnSuccessOnly ==
    [][LET id == ret'.args.sessionId IN
       /\ (FinalAssembly /\ StepsSucceed) =>
              /\ ret'.ok
              /\ markers(sessions', id) = markers(sessions, id) + 1
              /\ sessions'[id][Len(sessions'[id])].type = "session_completed"
              /\ \A other \in DOMAIN sessions' \ {id} :
                     markers(sessions', other) = markers(sessions, other)
       /\ (FinalAssembly /\ ~StepsSucceed) =>
              /\ ~ret'.ok
              /\ \A other \in DOMAIN sessions' :
                     markers(sessions', other) = markers(sessions, other)
       /\ ~FinalAssembly =>
              \A other \in DOMAIN sessions' :
                  markers(sessions', other) = markers(sessions, other)]_vars

\* C18 witness: the final assembly of s1, which reported a learned concept,
\* has succeeded and appended the only marker of its record, after the five
\* stages and the assembly stage; the earlier session s0 keeps its one marker.
C18_Witness ==
    /\ ret.op = "endsession"
    /\ ret.ok
    /\ ret.args.stage = "assembly"
    /\ ~ret.args.nextStageNeeded
    /\ ret.args.sessionId = "s1"
    /\ Len(sessions["s1"]) = 7
    /\ sessions["s1"][6].type = "analysis_stage"
    /\ sessions["s1"][6].stage = "assembly"
    /\ sessions["s1"][7].type = "session_completed"
    /\ markers(sessions, "s1") = 1
    /\ markers(sessions, "s0") = 1
    /\ \E k \in 1..Len(entities) : entities[k].name = conceptEntityName(ret.date, 0)

\* the graph the steps of the call, a final assembly, leave when one of them
\* throws: the graph of the first step that throws, as that step left it
graphAtFailure ==
    LET r1 == createLearnedConcepts(loadGraph, reported) IN
    IF ~r1.ok THEN r1.graph ELSE
    LET r2 == updateAssignments(r1.graph, reported) IN
    IF ~r2.ok THEN r2.graph ELSE
    LET r3 == updateCourseStatus(r2.graph, reported) IN
    IF ~r3.ok THEN r3.graph ELSE createNewConcepts(r3.graph, reported).graph

\* C19: when a graph step of the final assembly fails, the graph mutations of
\* the steps and items already performed stay in the store, none of the
\* remaining steps is performed, and the call returns one failure result.
C19_NoRollback ==
    [][(FinalAssembly /\ ~StepsSucceed) =>
           /\ ~ret'.ok
           /\ ret'.error = "Error recording study session"
           /\ loadGraph' = graphAtFailure]_vars

\* C19 witness: the last step of a final assembly has thrown, the concept C
\* being stored already; the learned concept of step 2, the replaced
\* assignment of step 3 and the replaced course of step 4 are in the store,
\* and no relation to C was added.
C19_Witness ==
    /\ ret.op = "endsession"
    /\ ret.args.stage = "assembly"
    /\ ~ret.args.nextStageNeeded
    /\ ~ret.ok
    /\ ret.error = "Error recording study session"
    /\ markers(sessions, ret.args.sessionId) = 0
    /\ \E k \in 1..Len(entities) :
           /\ entities[k].name = conceptEntityName(ret.date, 0)
           /\ entities[k].observations = <<O_x>>
    /\ \E k \in 1..Len(entities) :
           /\ entities[k].name = N_B
           /\ arrayIncludes(entities[k].observations, S_status_ \o S_completed)
    /\ \E k \in 1..Len(entities) :
           /\ entities[k].name = N_A
           /\ arrayIncludes(entities[k].observations, S_updated_ \o ret.date)
    /\ \E k \in 1..Len(entities) :
           /\ entities[k].name = N_C
           /\ entities[k].observations = <<>>
    /\ \A j \in 1..Len(relations) : relations[j].to # N_C

\* C20: the stored graph is changed by an endsession call only when the call's
\* stage is assembly and nextStageNeeded is false; every other endsession call
\* and every startsession call leaves the stored graph unchanged.
C20_GraphChangedByFinalAssemblyOnly ==
    [][/\ (/\ Calls("endsession")
           /\ ~(ret'.args.stage = "assembly" /\ ~ret'.args.nextStageNeeded)) =>
              UNCHANGED <<entities, relations>>
       /\ Calls("startsession") => UNCHANGED <<entities, relations>>]_vars

\* C20 witness: s1, which reported a learned concept for the stored course A,
\* has sent assembly with nextStageNeeded = true; the call succeeded, the
\* stage is recorded and the graph holds no concept entity.
C20_Witness ==
    /\ ret.op = "endsession"
    /\ ret.ok
    /\ ret.args.stage = "assembly"
    /\ ret.args.nextStageNeeded
    /\ ret.args.sessionId = "s1"
    /\ Len(sessions["s1"]) = 6
    /\ sessions["s1"][6].stage = "assembly"
    /\ sessions["s1"][6].stageData.conceptsLearned # <<>>
    /\ \E k \in 1..Len(entities) : entities[k].name = N_A
    /\ \A k \in 1..Len(entities) : entities[k].entityType # T_concept

C22_SessionsPersist ==
    [][\A id \in DOMAIN sessions :
           /\ id \in DOMAIN sessions'
           /\ Len(sessions'[id]) >= Len(sessions[id])]_vars

\* C22 witness: s1 holds a context_loaded event after its five stage records,
\* its first stage has then been revised and all six records are kept; the
\* sessions s0 and s2 are stored beside it.
C22_Witness ==
    /\ ret.op = "endsession"
    /\ ret.ok
    /\ ret.args.sessionId = "s1"
    /\ ret.args.isRevision
    /\ DOMAIN sessions = {"s0", "s1", "s2"}
    /\ Len(sessions["s1"]) = 6
    /\ \E k \in 1..6 : sessions["s1"][k].type = "context_loaded"
    /\ Len(sessions["s0"]) = 7

\* the stage records of the list
stagesOf(records) == filter(records, LAMBDA item : item.type = "analysis_stage")

\* the step is an endsession call that stores its stage
StoresStage ==
    /\ Calls("endsession")
    /\ ret'.args.sessionId \in DOMAIN sessions
    /\ ret'.args.stage \in StageNames \cup {"assembly"}

\* the call revises a stage the session holds
RevisesHeld ==
    /\ ret'.args.isRevision
    /\ ret'.args.revisesStage # 0
    /\ ret'.args.revisesStage <= Len(stagesOf(sessions[ret'.args.sessionId]))

\* the stage record the call has stored: the revised one, or the one after
\* the stage records the session held
storedStage ==
    LET before == stagesOf(sessions[ret'.args.sessionId])
        after == stagesOf(sessions'[ret'.args.sessionId])
    IN IF RevisesHeld THEN after[ret'.args.revisesStage] ELSE after[Len(before) + 1]

\* C24: every stage record that endsession stores has completed equal to the
\* negation of the call's nextStageNeeded, for every stage name, assembly
\* included.
C24_CompletedIsNegation ==
    [][StoresStage => storedStage.completed = ~ret'.args.nextStageNeeded]_vars

\* the place in the list of its k-th stage record
placeOfStage(records, k) ==
    CHOOSE i \in 1..Len(records) :
        /\ records[i].type = "analysis_stage"
        /\ Len(stagesOf(SubSeq(records, 1, i))) = k

\* C25: an endsession call with isRevision and revisesStage = k, the session
\* holding at least k stage records, replaces the k-th stage record in
\* place: the session holds as many records as before, and every other
\* record, stage record or context_loaded event, is where it was.
C25_RevisionInPlace ==
    [][(StoresStage /\ RevisesHeld) =>
           LET before == sessions[ret'.args.sessionId]
               after == sessions'[ret'.args.sessionId]
               place == placeOfStage(before, ret'.args.revisesStage)
           IN /\ Len(after) = Len(before)
              /\ after[place].type = "analysis_stage"
              /\ after[place].stage = ret'.args.stage
              /\ \A i \in 1..Len(before) : i # place => after[i] = before[i]]_vars

\* the graph the final assembly of the call holds when it comes to its i-th
\* assignment update
graphAtUpdate(i) ==
    updateAssignmentsFrom(createLearnedConcepts(loadGraph, reported), reported.course,
                          SubSeq(reported.assignmentUpdates, 1, i - 1), 1).graph

\* the final assembly of the call finds the assignment of its i-th update and
\* replaces it
AppliesUpdate(i) ==
    Len(searchNodes(graphAtUpdate(i),
                    S_name_ \o reported.assignmentUpdates[i].name).entities) > 0

\* the relations of the list that start or end at the name
relationsAt(list, name) ==
    {list[j] : j \in {j \in 1..Len(list) : list[j].from = name \/ list[j].to = name}}

\* C26: after an assembly has applied an update to an assignment, no relation
\* that involved the assignment before remains in the store; the assignment
\* holds a created_for relation from the session's course exactly when the
\* new status is completed, and no relation otherwise.
C26_AssignmentRelationsReplaced ==
    [][(FinalAssembly /\ ret'.ok) =>
           \A i \in 1..Len(reported.assignmentUpdates) :
               AppliesUpdate(i) =>
                   LET update == reported.assignmentUpdates[i] IN
                   /\ relationsAt(relations, update.name)
                         \cap relationsAt(relations', update.name) = {}
                   /\ relationsAt(relations', update.name) =
                         IF update.status = S_completed
                         THEN {[from |-> reported.course, to |-> update.name,
                                relationType |-> T_created_for]}
                         ELSE {}]_vars

\* the places of the records of the stage name
placesOf(records, name) ==
    {k \in 1..Len(records) :
        records[k].type = "analysis_stage" /\ records[k].stage = name}

\* the data of the first record of the stage name, the name being recorded
earliestData(records, name) ==
    records[CHOOSE k \in placesOf(records, name) :
                \A j \in placesOf(records, name) : k <= j].stageData

\* the step is an endsession call that assembles a session holding two
\* records at least of the summary stage
AssemblesRepeated ==
    /\ Calls("endsession")
    /\ ret'.args.stage = "assembly"
    /\ ~ret'.args.isRevision
    /\ ret'.args.sessionId \in DOMAIN sessions
    /\ Cardinality(placesOf(sessions[ret'.args.sessionId], "summary")) > 1

\* C29: when a session holds more than one record of a stage name (a stage
\* sent again without isRevision), the assembly builds its payload from the
\* earliest record of that name and ignores the later ones.
C29_EarliestRecordAssembled ==
    [][AssemblesRepeated =>
          LET id == ret'.args.sessionId
              records == sessions[id]
              payload == sessions'[id][Len(records) + 1].stageData
          IN /\ sessions'[id][Len(records) + 1].stage = "assembly"
             /\ payload.course = earliestData(records, "summary").course
             /\ payload.summary = earliestData(records, "summary").summary
             /\ \A k \in placesOf(records, "summary") :
                    records[k].stageData.course # payload.course
                        => \E j \in placesOf(records, "summary") : j < k]_vars

\* C29 witness: s1 sent summary for course A, then summary again for course
\* B without isRevision, and its assembly holds course A.
C29_Witness ==
    /\ ret.op = "endsession"
    /\ ret.ok
    /\ ret.args.stage = "assembly"
    /\ ret.args.sessionId = "s1"
    /\ placesOf(sessions["s1"], "summary") = {1, 6}
    /\ sessions["s1"][1].stageData.course = N_A
    /\ sessions["s1"][6].stageData.course = N_B
    /\ sessions["s1"][7].stage = "assembly"
    /\ sessions["s1"][7].stageData.course = N_A

\* a successfully assembled session for the course has reported the status
\* completed for the assignment, and the assignment holds it
SetCompletedIn(name, course) ==
    /\ \E id \in DOMAIN sessions : \E k \in 2..Len(sessions[id]) :
           /\ sessions[id][k].type = "session_completed"
           /\ sessions[id][k - 1].type = "analysis_stage"
           /\ sessions[id][k - 1].stage = "assembly"
           /\ sessions[id][k - 1].stageData.course = course
           /\ \E u \in 1..Len(sessions[id][k - 1].stageData.assignmentUpdates) :
                  sessions[id][k - 1].stageData.assignmentUpdates[u]
                      = [name |-> name, status |-> S_completed]
    /\ \E e \in 1..Len(entities) :
           /\ entities[e].name = name
           /\ entities[e].entityType = T_assignment
           /\ \E o \in 1..Len(entities[e].observations) :
                  entities[e].observations[o] = S_status_ \o S_completed

\* C30: an assignment whose status a successfully assembled session has set
\* to completed is afterwards reported with the status completed by
\* getAssignmentStatus, and getTermOverview counts it among the
\* completedAssignments of its course.
C30_CompletedIsReported ==
    /\ (/\ ret.op = "getAssignmentStatus"
        /\ ret.ok
        /\ SetCompletedIn(ret.args.assignmentName, N_A))
           => ret.value.info.status = S_completed
    /\ (/\ ret.op = "getTermOverview"
        /\ ret.ok
        /\ SetCompletedIn(N_B, N_A))
           => \E k \in 1..Len(ret.value.courses) :
                  /\ ret.value.courses[k].course.name = N_A
                  /\ ret.value.courses[k].progress.completedAssignments >= 1

----------------------------------------------------------------------------
(* Properties of overlapping calls                                         *)

\* the caller's call saves its graph in this step
Saves(c) == inflight[c].pc = "loaded" /\ inflight'[c].pc = "done" /\ inflight'[c].ok

\* C23: two overlapping createEntities calls with distinct new names, each
\* reading the graph document before the other writes it, can both report
\* success while the stored graph holds the entity of only one of them: a
\* call that saves leaves in the store the graph it read and its own list,
\* and nothing another call has written since.
C23_LastWriteWins ==
    [][\A c \in Callers :
           Saves(c) => /\ entities' = inflight[c].graph.entities \o inflight[c].args
                       /\ relations' = inflight[c].graph.relations]_vars

\* C23 witness: both calls read the empty graph, both have reported success
\* for distinct names, and the stored graph holds one entity only.
C23_Witness ==
    /\ \A c \in Callers : /\ inflight[c].pc = "done"
                          /\ inflight[c].ok
                          /\ inflight[c].graph = EmptyGraph
    /\ inflight["p"].args[1].name # inflight["q"].args[1].name
    /\ Len(entities) = 1

----------------------------------------------------------------------------
(* Properties of getCourseOverview                                         *)

\* the dated entities of the list are in ascending order of their dates
DatedAscend(list, prefix) ==
    \A i, j \in 1..Len(list) :
        (i < j /\ datedBy(list[i], prefix) # <<>> /\ datedBy(list[j], prefix) # <<>>)
            => datedBy(list[i], prefix)[1] <= datedBy(list[j], prefix)[1]

OverviewReturned == ret # NoCall /\ ret.op = "getCourseOverview" /\ ret.ok

\* C27: in the result of getCourseOverview any two lectures that both carry
\* a Date: observation are in ascending order of date, and so are any two
\* assignments that both carry Due: and any two exams that both carry Date:,
\* whatever undated entities the course has.
C27_DatedInAscendingOrder ==
    OverviewReturned =>
        /\ DatedAscend(ret.value.lectures, S_Date_)
        /\ DatedAscend(ret.value.assignments, S_Due_)
        /\ DatedAscend(ret.value.exams, S_Date_)

====
